---- MODULE Spec2Model ----
(***************************************************************************)
(* VideoStreamingHub: the request handlers of src/app/routes and the       *)
(* media helpers of src/app/utils/video.py as a state machine over the     *)
(* tables of src/app/database/models.py and the two storage directories.   *)
(*                                                                         *)
(* None (a missing Optional value, an absent row, the anonymous caller) is *)
(* -1: ids start at 1, and 0 is an integer a request may send that the     *)
(* handlers' truthiness tests take for None (Truthy).                      *)
(***************************************************************************)
EXTENDS Integers, Sequences, FiniteSets, Bags, TLC

VARIABLES
    users,            \* table users:         id -> row
    videos,           \* table videos:        id -> row
    comments,         \* table comments:      id -> row
    watch_history,    \* table watch_history: id -> row
    subscription,     \* join table (bag of <<subscriber_id, channel_id>>)
    video_likes,      \* join table (bag of <<user_id, video_id>>)
    comment_likes,    \* join table (bag of <<user_id, comment_id>>)
    video_files,      \* names of the files in VIDEO_STORAGE_PATH
    thumbnail_files,  \* names of the files in THUMBNAIL_STORAGE_PATH
    uuids,            \* number of uuid4() names generated so far
    now,              \* the clock read by datetime.utcnow
    inflight,         \* requests between their lookup and their commit,
                      \* and the bearer tokens clients hold
    response          \* the last response sent

vars == <<users, videos, comments, watch_history, subscription, video_likes,
          comment_likes, video_files, thumbnail_files, uuids, now, inflight,
          response>>

tables == <<users, videos, comments, watch_history, subscription, video_likes,
            comment_likes>>

storage == <<video_files, thumbnail_files, uuids>>

-----------------------------------------------------------------------------
(* Bounds of the model *)

MaxVideos == 1
MaxComments == 2
MaxViews == 2

None == -1

(* if x: for an Optional[int] *)
Truthy(x) == x # None /\ x # 0

(* os.path.basename(DEFAULT_THUMBNAIL_PATH): "default_video.jpg", which lies
   in THUMBNAIL_STORAGE_PATH.  Generated names are 1, 2, ... *)
DEFAULT_THUMBNAIL_PATH == 0

-----------------------------------------------------------------------------
(* Tables as functions *)

Put(f, k, v) == [x \in (DOMAIN f) \cup {k} |-> IF x = k THEN v ELSE f[x]]

Del(f, k) == [x \in (DOMAIN f) \ {k} |-> f[x]]

Empty == [x \in {} |-> None]

Max(S) == IF S = {} THEN 0 ELSE CHOOSE m \in S : \A x \in S : x <= m

(* Column(Integer, primary_key=True): the next row id *)
NextId(table) == Max(DOMAIN table) + 1

(* db.query(User).filter(User.username == username).first() *)
UserByUsername(username) ==
    LET S == {u \in DOMAIN users : users[u].username = username}
    IN  IF S = {} THEN None ELSE CHOOSE u \in S : TRUE

(* The lookup by email finding nobody *)
UserByEmail_nobody(email) == None

(* db.query(User).filter(User.email == email).first() *)
UserByEmail(email) ==
    LET S == {u \in DOMAIN users : users[u].email = email}
    IN  IF S = {} THEN None ELSE CHOOSE u \in S : TRUE

(* The users get_current_active_user can resolve a request to *)
ActiveUsers == {u \in DOMAIN users : users[u].is_active}

Response(op, caller, target, status, detail, body) ==
    [op |-> op, caller |-> caller, target |-> target, status |-> status,
     detail |-> detail, body |-> body]

-----------------------------------------------------------------------------
(* The state after initialize_sqlite.py: the admin and the test user, empty
   storage directories, and the default thumbnail written at import. *)

Init ==
    /\ users = (1 :> [username |-> "admin", email |-> "admin@example.com",
                      is_active |-> TRUE])
            @@ (2 :> [username |-> "test", email |-> "test@example.com",
                      is_active |-> TRUE])
    /\ videos = Empty
    /\ comments = Empty
    /\ watch_history = Empty
    /\ subscription = EmptyBag
    /\ video_likes = EmptyBag
    /\ comment_likes = EmptyBag
    /\ video_files = {}
    /\ thumbnail_files = {DEFAULT_THUMBNAIL_PATH}
    /\ uuids = 0
    /\ now = 0
    /\ inflight = {}
    /\ response = Response("none", None, None, 0, "", <<>>)

(* datetime.utcnow advances *)
Tick ==
    /\ now' = now + 1
    /\ UNCHANGED <<tables, storage, inflight, response>>

-----------------------------------------------------------------------------
(* POST /register *)

register_user(user) ==
    /\ IF UserByUsername(user.username) # None
         THEN /\ response' = Response("register_user", None, None, 400,
                                      "Username already registered", <<>>)
              /\ UNCHANGED users
       ELSE IF UserByEmail(user.email) # None
         THEN /\ response' = Response("register_user", None, None, 400,
                                      "Email already registered", <<>>)
              /\ UNCHANGED users
       ELSE LET id == NextId(users) IN
              /\ users' = Put(users, id, [username |-> user.username,
                                          email |-> user.email,
                                          is_active |-> TRUE])
              /\ response' = Response("register_user", None, id, 201, "", <<id>>)
    /\ UNCHANGED <<videos, comments, watch_history, subscription, video_likes,
                   comment_likes, storage, now, inflight>>

-----------------------------------------------------------------------------
(* src/app/utils/video.py.  A helper returns what the caller sees (raised,
   path) and what it leaves behind (files, uuids).  An upload is
   [content_type |-> <<type, subtype>>, io |-> "ok" | "open_fails" |
   "write_fails"]; NoFile is an absent Optional[UploadFile]. *)

NoFile == [content_type |-> <<"", "">>, io |-> "absent"]

Helper(raised, path, files, n) ==
    [raised |-> raised, path |-> path, files |-> files, uuids |-> n]

(* uuid4() names a new file; aiofiles.open(.., 'wb') creates it before the
   first chunk is written, so a failing write leaves the partial file. *)
save_upload_file(upload_file, files, n) ==
    LET unique_filename == n + 1 IN
    CASE upload_file.io = "open_fails" ->
             Helper(TRUE, None, files, n + 1)
      [] upload_file.io = "write_fails" ->
             Helper(TRUE, None, files \cup {unique_filename}, n + 1)
      [] OTHER ->
             Helper(FALSE, unique_filename, files \cup {unique_filename}, n + 1)

(* content_type.startswith('video/') *)
save_video(video_file, files, n) ==
    IF video_file.content_type[1] # "video"
      THEN Helper(TRUE, None, files, n)
      ELSE save_upload_file(video_file, files, n)

(* The thumbnail stored whatever its content type *)
save_thumbnail_unchecked(thumbnail_file, files, n) ==
    save_upload_file(thumbnail_file, files, n)

(* content_type.startswith('image/') *)
save_thumbnail(thumbnail_file, files, n) ==
    IF thumbnail_file.content_type[1] # "image"
      THEN Helper(TRUE, None, files, n)
      ELSE save_upload_file(thumbnail_file, files, n)

(* The transcoding tool as this request finds it:
     installed_1, installed_2  check_ffmpeg() in the two helpers
     frame     the frame extraction: "ok" (a non-empty file), "empty" (an
               empty file), "missing" (exit 0, no file), "CalledProcessError"
               (non-zero exit), "Exception" (the run itself raises)
     probe     the first line of the stderr of ffmpeg -i that holds the
               word Duration: "time" (the text after "Duration: " reads
               h:m:s), "N/A" (it reads otherwise), "none" (no such line),
               "Exception" (the run itself raises)
     h, m, s   the numbers float() reads in the three fields; the line is
               the stream's Duration line or, printed before it, a metadata
               tag of the uploaded file whose value holds the word, so the
               fields are the uploader's to choose *)
generate_thumbnail_from_video(tool, files, n) ==
    IF ~tool.installed_1
      THEN Helper(FALSE, DEFAULT_THUMBNAIL_PATH, files, n)
    ELSE LET thumbnail_path == n + 1 IN
         CASE tool.frame = "ok" ->
                  Helper(FALSE, thumbnail_path, files \cup {thumbnail_path}, n + 1)
           [] tool.frame = "empty" ->
                  Helper(FALSE, DEFAULT_THUMBNAIL_PATH,
                         files \cup {thumbnail_path}, n + 1)
           [] OTHER ->
                  Helper(FALSE, DEFAULT_THUMBNAIL_PATH, files, n + 1)

(* int(float(h)) * 3600 + int(float(m)) * 60 + float(s), truncated *)
get_video_duration(tool) ==
    IF ~tool.installed_2 THEN 0
    ELSE CASE tool.probe = "time" -> tool.h * 3600 + tool.m * 60 + tool.s
           [] OTHER -> 0

(* The removal that removes nothing *)
delete_file_skipped(files, file_path) == files

(* os.remove if the file exists *)
delete_file(files, file_path) == files \ {file_path}

-----------------------------------------------------------------------------
(* POST /videos/ : form is the multipart form [title, description,
   is_private, video_file, thumbnail_file], a text being the sequence of its
   characters and an absent description the empty text; db is how the session behaves at
   the end of the request: "ok", "commit_fails" or "refresh_fails" (the
   commit went through).  The detail of the 500 is "Error uploading video: "
   followed by str(e) of the exception caught. *)

create_video(current_user, form, tool, db) ==
    LET saved == save_video(form.video_file, video_files, uuids)
        thumb == IF form.thumbnail_file # NoFile
                   THEN save_thumbnail(form.thumbnail_file, thumbnail_files,
                                       saved.uuids)
                   ELSE generate_thumbnail_from_video(tool, thumbnail_files,
                                                      saved.uuids)
        (* except Exception: thumbnail_path = DEFAULT_THUMBNAIL_PATH *)
        thumbnail_path == IF thumb.raised THEN DEFAULT_THUMBNAIL_PATH
                          ELSE thumb.path
        duration == get_video_duration(tool)
        id == NextId(videos)
        db_video == [title |-> form.title, description |-> form.description,
                     file_path |-> saved.path,
                     thumbnail_path |-> thumbnail_path,
                     duration |-> duration, views |-> 0,
                     created_at |-> now, updated_at |-> now,
                     is_private |-> form.is_private,
                     uploader_id |-> current_user]
        (* the except branch: delete_file for what this request stored *)
        cleaned_thumbnails ==
            IF thumbnail_path # DEFAULT_THUMBNAIL_PATH
              THEN delete_file(thumb.files, thumbnail_path)
              ELSE thumb.files
    IN
    /\ current_user \in ActiveUsers
    /\ IF saved.raised
         THEN /\ video_files' = saved.files
              /\ uuids' = saved.uuids
              /\ UNCHANGED <<videos, thumbnail_files>>
              /\ response' = Response("create_video", current_user, None, 500,
                     IF form.video_file.content_type[1] # "video"
                       THEN "Error uploading video: 400: File is not a video"
                       ELSE "Error uploading video: OSError", <<>>)
       ELSE IF db = "ok"
         THEN /\ videos' = Put(videos, id, db_video)
              /\ video_files' = saved.files
              /\ thumbnail_files' = thumb.files
              /\ uuids' = thumb.uuids
              /\ response' = Response("create_video", current_user, id, 201,
                                      "", <<id>>)
       ELSE   /\ videos' = IF db = "refresh_fails"
                             THEN Put(videos, id, db_video) ELSE videos
              /\ video_files' = delete_file(saved.files, saved.path)
              /\ thumbnail_files' = cleaned_thumbnails
              /\ uuids' = thumb.uuids
              /\ response' = Response("create_video", current_user, None, 500,
                     IF db = "refresh_fails"
                       THEN "Error uploading video: refresh"
                       ELSE "Error uploading video: commit", <<>>)
    /\ UNCHANGED <<users, comments, watch_history, subscription, video_likes,
                   comment_likes, now, inflight>>

(* The inputs of an upload *)
VideoTypes == {<<"video", "mp4">>, <<"image", "png">>}

(* the store is not reached when the content type is refused *)
Uploads(kind, types) ==
    {file \in [content_type : types, io : {"ok", "open_fails", "write_fails"}] :
        file.content_type[1] # kind => file.io = "ok"}

(* a run that does not happen has no outcome to choose, nor have the fields
   of a line that is not read *)
Tools ==
    {tool \in [installed_1 : BOOLEAN, installed_2 : BOOLEAN,
               frame : {"ok", "empty", "missing", "CalledProcessError",
                        "Exception"},
               probe : {"time", "N/A", "none", "Exception"},
               h : {-1, 0}, m : {0, 1}, s : {0, 7}] :
        /\ ~tool.installed_1 => tool.frame = "Exception"
        /\ ~tool.installed_2 => tool.probe = "Exception"
        /\ tool.probe # "time" => tool.h = 0 /\ tool.m = 0 /\ tool.s = 0
        /\ tool.probe = "time" => tool.s = 7}

(* no transcoding tool on the host *)
NoTool == [installed_1 |-> FALSE, installed_2 |-> FALSE, frame |-> "Exception",
           probe |-> "Exception", h |-> 0, m |-> 0, s |-> 0]

(* the tool installed and working on a 67 second stream *)
GoodTool == [installed_1 |-> TRUE, installed_2 |-> TRUE, frame |-> "ok",
             probe |-> "time", h |-> 0, m |-> 1, s |-> 7]

GoodVideo == [content_type |-> <<"video", "mp4">>, io |-> "ok"]

(* A well-formed upload without a thumbnail *)
PlainForm(is_private) ==
    [title |-> <<"c", "a", "t">>, description |-> <<>>,
     is_private |-> is_private, video_file |-> GoodVideo,
     thumbnail_file |-> NoFile]


-----------------------------------------------------------------------------
(* src/app/routes/video.py: reading and updating a video *)

Has(update, field) == field \in DOMAIN update

(* Hidden with the comparison of the ids the wrong way round *)
Hidden_wrong_comparison(current_user, video_id) ==
    /\ videos[video_id].is_private
    /\ current_user = videos[video_id].uploader_id

(* video.is_private and current_user.id != video.uploader_id *)
Hidden(current_user, video_id) ==
    /\ videos[video_id].is_private
    /\ current_user # videos[video_id].uploader_id

(* GET /videos/{video_id} *)
get_video(current_user, video_id) ==
    /\ current_user \in ActiveUsers
    /\ IF video_id \notin DOMAIN videos
         THEN /\ response' = Response("get_video", current_user, video_id, 404,
                                      "Video not found", <<>>)
              /\ UNCHANGED videos
       ELSE IF Hidden(current_user, video_id)
         THEN /\ response' = Response("get_video", current_user, video_id, 403,
                        "You do not have permission to view this video", <<>>)
              /\ UNCHANGED videos
       ELSE   /\ videos' = [videos EXCEPT ![video_id].views = @ + 1,
                                          ![video_id].updated_at = now]
              /\ response' = Response("get_video", current_user, video_id, 200,
                                      "", <<video_id>>)
    /\ UNCHANGED <<users, comments, watch_history, subscription, video_likes,
                   comment_likes, storage, now, inflight>>

(* get_video as two steps of a request that runs beside others: the query
   and the two tests (lines 141-154), which leave the request with the
   counter it has read, ... *)
get_video_read(current_user, video_id) ==
    /\ current_user \in ActiveUsers
    /\ IF video_id \notin DOMAIN videos
         THEN /\ response' = Response("get_video", current_user, video_id, 404,
                                      "Video not found", <<>>)
              /\ UNCHANGED inflight
       ELSE IF Hidden(current_user, video_id)
         THEN /\ response' = Response("get_video", current_user, video_id, 403,
                        "You do not have permission to view this video", <<>>)
              /\ UNCHANGED inflight
       ELSE LET request == [current_user |-> current_user,
                            video_id |-> video_id,
                            views |-> videos[video_id].views, pc |-> "read"]
            IN  /\ \A r \in inflight : [r EXCEPT !.pc = "read"] # request
                /\ inflight' = inflight \cup {request}
                /\ UNCHANGED response
    /\ UNCHANGED <<tables, storage, now>>

(* The value a request writes, were it to write what it read *)
Viewed_unchanged(request) == request.views

(* video.views += 1 on the object the request has loaded *)
Viewed(request) == request.views + 1

(* ... and the increment with its commit (lines 157-160): the UPDATE sets
   the value computed from the counter read; the request stays in the set
   as served.  A row deleted meanwhile fails the UPDATE. *)
get_video_commit(request) ==
    /\ request \in inflight
    /\ request.pc = "read"
    /\ inflight' = (inflight \ {request}) \cup {[request EXCEPT !.pc = "done"]}
    /\ IF request.video_id \in DOMAIN videos
         THEN /\ videos' = [videos EXCEPT
                              ![request.video_id].views = Viewed(request),
                              ![request.video_id].updated_at = now]
              /\ response' = Response("get_video", request.current_user,
                                      request.video_id, 200, "",
                                      <<request.video_id>>)
         ELSE /\ UNCHANGED videos
              /\ response' = Response("get_video", request.current_user,
                                      request.video_id, 500,
                                      "Internal Server Error", <<>>)
    /\ UNCHANGED <<users, comments, watch_history, subscription, video_likes,
                   comment_likes, storage, now>>

(* PUT /videos/{video_id}: video_update holds the fields that are not None *)
update_video(current_user, video_id, video_update) ==
    /\ current_user \in ActiveUsers
    /\ IF video_id \notin DOMAIN videos
         THEN /\ response' = Response("update_video", current_user, video_id,
                                      404, "Video not found", <<>>)
              /\ UNCHANGED videos
       ELSE IF current_user # videos[video_id].uploader_id
         THEN /\ response' = Response("update_video", current_user, video_id,
                      403, "You do not have permission to update this video",
                      <<>>)
              /\ UNCHANGED videos
       ELSE LET video == videos[video_id]
                updated ==
                    [video EXCEPT
                       !.title = IF Has(video_update, "title")
                                   THEN video_update.title ELSE @,
                       !.description = IF Has(video_update, "description")
                                         THEN video_update.description ELSE @,
                       !.is_private = IF Has(video_update, "is_private")
                                        THEN video_update.is_private ELSE @]
            IN /\ videos' = [videos EXCEPT ![video_id] =
                               IF updated = video THEN video
                               ELSE [updated EXCEPT !.updated_at = now]]
               /\ response' = Response("update_video", current_user, video_id,
                                       200, "", <<video_id>>)
    /\ UNCHANGED <<users, comments, watch_history, subscription, video_likes,
                   comment_likes, storage, now, inflight>>

(* The membership test skipped: every like is taken for a new one *)
Liked_never(current_user, video_id) == FALSE

(* video in current_user.liked_videos *)
Liked(current_user, video_id) ==
    BagIn(<<current_user, video_id>>, video_likes)

(* POST /videos/{video_id}/like *)
like_video(current_user, video_id) ==
    /\ current_user \in ActiveUsers
    /\ IF video_id \notin DOMAIN videos
         THEN /\ response' = Response("like_video", current_user, video_id, 404,
                                      "Video not found", <<>>)
              /\ UNCHANGED video_likes
       ELSE IF Hidden(current_user, video_id)
         THEN /\ response' = Response("like_video", current_user, video_id, 403,
                        "You do not have permission to like this video", <<>>)
              /\ UNCHANGED video_likes
       ELSE IF Liked(current_user, video_id)
         THEN /\ response' = Response("like_video", current_user, video_id, 400,
                                      "You have already liked this video", <<>>)
              /\ UNCHANGED video_likes
       ELSE   /\ video_likes' = video_likes (+) SetToBag({<<current_user, video_id>>})
              /\ response' = Response("like_video", current_user, video_id, 200,
                                      "", <<video_id>>)
    /\ UNCHANGED <<users, videos, comments, watch_history, subscription,
                   comment_likes, storage, now, inflight>>

(* like_video as two steps of a request that runs beside others: the query
   and the tests up to the membership test (lines 293-312); n tells the
   requests in flight apart, ... *)
like_video_check(current_user, video_id, n) ==
    /\ current_user \in ActiveUsers
    /\ IF video_id \notin DOMAIN videos
         THEN /\ response' = Response("like_video", current_user, video_id, 404,
                                      "Video not found", <<>>)
              /\ UNCHANGED inflight
       ELSE IF Hidden(current_user, video_id)
         THEN /\ response' = Response("like_video", current_user, video_id, 403,
                        "You do not have permission to like this video", <<>>)
              /\ UNCHANGED inflight
       ELSE IF Liked(current_user, video_id)
         THEN /\ response' = Response("like_video", current_user, video_id, 400,
                                      "You have already liked this video", <<>>)
              /\ UNCHANGED inflight
       ELSE   /\ \A r \in inflight : r.n # n
              /\ inflight' = inflight \cup
                    {[op |-> "like_video", current_user |-> current_user,
                      target |-> video_id, n |-> n]}
              /\ UNCHANGED response
    /\ UNCHANGED <<tables, storage, now>>

(* ... and the append with its commit (lines 315-319): an INSERT into
   video_likes, a table without a key *)
like_video_commit(request) ==
    /\ request \in inflight
    /\ request.op = "like_video"
    /\ inflight' = inflight \ {request}
    /\ video_likes' = video_likes (+)
                        SetToBag({<<request.current_user, request.target>>})
    /\ response' = Response("like_video", request.current_user, request.target,
                            200, "", <<request.target>>)
    /\ UNCHANGED <<users, videos, comments, watch_history, subscription,
                   comment_likes, storage, now>>

(* POST /videos/{video_id}/unlike *)
unlike_video(current_user, video_id) ==
    /\ current_user \in ActiveUsers
    /\ IF video_id \notin DOMAIN videos
         THEN /\ response' = Response("unlike_video", current_user, video_id,
                                      404, "Video not found", <<>>)
              /\ UNCHANGED video_likes
       ELSE IF ~Liked(current_user, video_id)
         THEN /\ response' = Response("unlike_video", current_user, video_id,
                                      400, "You have not liked this video", <<>>)
              /\ UNCHANGED video_likes
       ELSE   /\ video_likes' = video_likes (-) SetToBag({<<current_user, video_id>>})
              /\ response' = Response("unlike_video", current_user, video_id,
                                      200, "", <<video_id>>)
    /\ UNCHANGED <<users, videos, comments, watch_history, subscription,
                   comment_likes, storage, now, inflight>>


-----------------------------------------------------------------------------
(* src/app/routes/video.py: comments *)

(* The ids of S in primary-key order, the order of a query without order_by *)
RECURSIVE InIdOrder(_)
InIdOrder(S) ==
    IF S = {} THEN <<>>
    ELSE LET least == CHOOSE m \in S : \A x \in S : m <= x
         IN  <<least>> \o InIdOrder(S \ {least})

(* query.offset(skip).limit(limit).all() *)
Page(rows, skip, limit) ==
    LET last == IF skip + limit < Len(rows) THEN skip + limit ELSE Len(rows)
    IN  SubSeq(rows, skip + 1, last)

(* POST /videos/{video_id}/comments: comment is [content, parent_id] *)
create_comment(current_user, video_id, comment) ==
    /\ current_user \in ActiveUsers
    /\ IF video_id \notin DOMAIN videos
         THEN /\ response' = Response("create_comment", current_user, video_id,
                                      404, "Video not found", <<>>)
              /\ UNCHANGED comments
       ELSE IF Hidden(current_user, video_id)
         THEN /\ response' = Response("create_comment", current_user, video_id,
                   403, "You do not have permission to comment on this video",
                   <<>>)
              /\ UNCHANGED comments
       ELSE IF Truthy(comment.parent_id)
               /\ comment.parent_id \notin DOMAIN comments
         THEN /\ response' = Response("create_comment", current_user, video_id,
                                      404, "Parent comment not found", <<>>)
              /\ UNCHANGED comments
       ELSE IF Truthy(comment.parent_id)
               /\ comments[comment.parent_id].video_id # video_id
         THEN /\ response' = Response("create_comment", current_user, video_id,
                   400, "Parent comment does not belong to this video", <<>>)
              /\ UNCHANGED comments
       ELSE LET id == NextId(comments) IN
              /\ comments' = Put(comments, id,
                                 [content |-> comment.content,
                                  user_id |-> current_user,
                                  video_id |-> video_id,
                                  parent_id |-> comment.parent_id,
                                  created_at |-> now, updated_at |-> now])
              /\ response' = Response("create_comment", current_user, video_id,
                                      201, "", <<id>>)
    /\ UNCHANGED <<users, videos, watch_history, subscription, video_likes,
                   comment_likes, storage, now, inflight>>

(* GET /videos/{video_id}/comments: the handler takes no current_user *)
get_comments(video_id, skip, limit) ==
    /\ IF video_id \notin DOMAIN videos
         THEN response' = Response("get_comments", None, video_id, 404,
                                   "Video not found", <<>>)
         ELSE response' = Response("get_comments", None, video_id, 200, "",
                   Page(InIdOrder({c \in DOMAIN comments :
                                     /\ comments[c].video_id = video_id
                                     /\ comments[c].parent_id = None}),
                        skip, limit))
    /\ UNCHANGED <<tables, storage, now, inflight>>

(* comment in current_user.liked_comments *)
LikedComment(current_user, comment_id) ==
    BagIn(<<current_user, comment_id>>, comment_likes)

(* POST /videos/comments/{comment_id}/like *)
like_comment(current_user, comment_id) ==
    /\ current_user \in ActiveUsers
    /\ IF comment_id \notin DOMAIN comments
         THEN /\ response' = Response("like_comment", current_user, comment_id,
                                      404, "Comment not found", <<>>)
              /\ UNCHANGED comment_likes
       ELSE IF LikedComment(current_user, comment_id)
         THEN /\ response' = Response("like_comment", current_user, comment_id,
                                 400, "You have already liked this comment", <<>>)
              /\ UNCHANGED comment_likes
       ELSE   /\ comment_likes' =
                     comment_likes (+) SetToBag({<<current_user, comment_id>>})
              /\ response' = Response("like_comment", current_user, comment_id,
                                      200, "", <<comment_id>>)
    /\ UNCHANGED <<users, videos, comments, watch_history, subscription,
                   video_likes, storage, now, inflight>>

(* POST /videos/comments/{comment_id}/unlike *)
unlike_comment(current_user, comment_id) ==
    /\ current_user \in ActiveUsers
    /\ IF comment_id \notin DOMAIN comments
         THEN /\ response' = Response("unlike_comment", current_user, comment_id,
                                      404, "Comment not found", <<>>)
              /\ UNCHANGED comment_likes
       ELSE IF ~LikedComment(current_user, comment_id)
         THEN /\ response' = Response("unlike_comment", current_user, comment_id,
                                 400, "You have not liked this comment", <<>>)
              /\ UNCHANGED comment_likes
       ELSE   /\ comment_likes' =
                     comment_likes (-) SetToBag({<<current_user, comment_id>>})
              /\ response' = Response("unlike_comment", current_user, comment_id,
                                      200, "", <<comment_id>>)
    /\ UNCHANGED <<users, videos, comments, watch_history, subscription,
                   video_likes, storage, now, inflight>>

-----------------------------------------------------------------------------
(* src/app/routes/video.py: watch history *)

(* The lookup finding no row, whatever the table holds *)
ExistingHistory_missed(user_id, video_id) == {None}

(* db.query(WatchHistory).filter(user_id == .., video_id == ..): the rows
   .first() may return (None when there is none) *)
ExistingHistory(user_id, video_id) ==
    LET S == {h \in DOMAIN watch_history :
                /\ watch_history[h].user_id = user_id
                /\ watch_history[h].video_id = video_id}
    IN  IF S = {} THEN {None} ELSE S

(* The id of the row the request returns *)
HistoryId(existing_history) ==
    IF existing_history # None THEN existing_history
    ELSE NextId(watch_history)

(* SaveHistory stamping the row anew on every report *)
SaveHistory_restamped(existing_history, user_id, video_id, timestamp) ==
    Put(watch_history, HistoryId(existing_history),
        [user_id |-> user_id, video_id |-> video_id,
         timestamp |-> timestamp, watched_at |-> now])

(* The two branches on existing_history, up to db.commit() *)
SaveHistory(existing_history, user_id, video_id, timestamp) ==
    IF existing_history # None
      THEN IF existing_history \in DOMAIN watch_history
             THEN [watch_history EXCEPT ![existing_history].timestamp = timestamp]
             ELSE watch_history
      ELSE Put(watch_history, NextId(watch_history),
               [user_id |-> user_id, video_id |-> video_id,
                timestamp |-> timestamp, watched_at |-> now])

(* POST /videos/{video_id}/watch-history, the request handled alone *)
update_watch_history(current_user, video_id, timestamp) ==
    /\ current_user \in ActiveUsers
    /\ IF video_id \notin DOMAIN videos
         THEN /\ response' = Response("update_watch_history", current_user,
                                      video_id, 404, "Video not found", <<>>)
              /\ UNCHANGED watch_history
       ELSE IF Hidden(current_user, video_id)
         THEN /\ response' = Response("update_watch_history", current_user,
                   video_id, 403,
                   "You do not have permission to update watch history for this video",
                   <<>>)
              /\ UNCHANGED watch_history
       ELSE \E existing_history \in ExistingHistory(current_user, video_id) :
              /\ watch_history' = SaveHistory(existing_history, current_user,
                                              video_id, timestamp)
              /\ response' = Response("update_watch_history", current_user,
                                      video_id, 200, "",
                                      <<HistoryId(existing_history)>>)
    /\ UNCHANGED <<users, videos, comments, subscription, video_likes,
                   comment_likes, storage, now, inflight>>

(* update_watch_history as two steps of a request that runs beside others:
   the queries up to existing_history (lines 571-589), which leave the
   request in flight with the row it found, ... *)
update_watch_history_lookup(current_user, video_id, timestamp) ==
    /\ current_user \in ActiveUsers
    /\ IF video_id \notin DOMAIN videos
         THEN /\ response' = Response("update_watch_history", current_user,
                                      video_id, 404, "Video not found", <<>>)
              /\ UNCHANGED inflight
       ELSE IF Hidden(current_user, video_id)
         THEN /\ response' = Response("update_watch_history", current_user,
                   video_id, 403,
                   "You do not have permission to update watch history for this video",
                   <<>>)
              /\ UNCHANGED inflight
       ELSE \E existing_history \in ExistingHistory(current_user, video_id) :
              LET request == [current_user |-> current_user,
                              video_id |-> video_id, timestamp |-> timestamp,
                              existing_history |-> existing_history]
              IN  /\ request \notin inflight
                  /\ inflight' = inflight \cup {request}
                  /\ UNCHANGED response
    /\ UNCHANGED <<tables, storage, now>>

(* ... and the branch on existing_history with its commit (lines 591-614) *)
update_watch_history_commit(request) ==
    /\ request \in inflight
    /\ inflight' = inflight \ {request}
    /\ watch_history' = SaveHistory(request.existing_history,
                                    request.current_user, request.video_id,
                                    request.timestamp)
    /\ response' = Response("update_watch_history", request.current_user,
                            request.video_id, 200, "",
                            <<HistoryId(request.existing_history)>>)
    /\ UNCHANGED <<users, videos, comments, subscription, video_likes,
                   comment_likes, storage, now>>

(* The orders of the rows S by watched_at descending (ties in any order) *)
ByWatchedAtDesc(S) ==
    {q \in [1..Cardinality(S) -> S] :
        /\ \A i, j \in DOMAIN q : i # j => q[i] # q[j]
        /\ \A i, j \in DOMAIN q :
             i < j => watch_history[q[i]].watched_at >= watch_history[q[j]].watched_at}

(* GET /videos/watch-history *)
get_watch_history(current_user, skip, limit) ==
    /\ current_user \in ActiveUsers
    /\ \E rows \in ByWatchedAtDesc({h \in DOMAIN watch_history :
                                      watch_history[h].user_id = current_user}) :
         response' = Response("get_watch_history", current_user, None, 200, "",
                              Page(rows, skip, limit))
    /\ UNCHANGED <<tables, storage, now, inflight>>

-----------------------------------------------------------------------------
(* Raw files and the player page: handlers without a current_user *)

(* GET /videos/file/{filename} *)
get_video_file(filename) ==
    /\ IF filename \notin video_files
         THEN response' = Response("get_video_file", None, filename, 404,
                                   "Video file not found", <<>>)
         ELSE response' = Response("get_video_file", None, filename, 200, "",
                                   <<filename>>)
    /\ UNCHANGED <<tables, storage, now, inflight>>

(* GET /videos/thumbnail/{filename} *)
get_thumbnail_file(filename) ==
    /\ IF filename \notin thumbnail_files
         THEN response' = Response("get_thumbnail_file", None, filename, 404,
                                   "Thumbnail file not found", <<>>)
         ELSE response' = Response("get_thumbnail_file", None, filename, 200, "",
                                   <<filename>>)
    /\ UNCHANGED <<tables, storage, now, inflight>>

(* GET /video/{video_id} (src/app/main.py) *)
video_page(video_id) ==
    /\ IF video_id \notin DOMAIN videos
         THEN response' = Response("video_page", None, video_id, 404,
                                   "Video not found", <<>>)
         ELSE response' = Response("video_page", None, video_id, 200, "",
                                   <<video_id>>)
    /\ UNCHANGED <<tables, storage, now, inflight>>


-----------------------------------------------------------------------------
(* src/app/routes/video.py: removing and replacing *)

(* The rows of a join table that are left when the rows naming one of ids in
   the column side (1 the user, 2 the video or comment) are deleted with
   their object *)
Unlink(bag, side, ids) ==
    [e \in {x \in DOMAIN bag : x[side] \notin ids} |-> bag[e]]

(* The comments staying when their video goes *)
DeleteComments_kept(ids) == comments

(* session.delete of the comments ids: the rows go, and a comment left
   behind whose parent has gone gets parent_id NULL (the backref of
   Comment.replies has no delete cascade) *)
DeleteComments(ids) ==
    [c \in DOMAIN comments \ ids |->
        IF comments[c].parent_id \in ids
          THEN [comments[c] EXCEPT !.parent_id = None]
          ELSE comments[c]]

(* The test for the uploader answering that everyone is *)
IsUploader_anyone(current_user, video_id) == TRUE

(* current_user.id != video.uploader_id, negated *)
IsUploader(current_user, video_id) ==
    current_user = videos[video_id].uploader_id

(* if video.thumbnail_path: delete_file(os.path.join(THUMBNAIL_STORAGE_PATH,
   video.thumbnail_path)).  The name of the default thumbnail is a name like
   any other, and the default thumbnail lies in THUMBNAIL_STORAGE_PATH. *)
RemoveThumbnail(files, thumbnail_path) ==
    IF thumbnail_path # None
      THEN delete_file(files, thumbnail_path)
      ELSE files

(* DELETE /videos/{video_id}: the rows of Video.comments and
   Video.watch_history go with the video (cascade="all, delete-orphan"),
   and so do the rows of the join tables of the objects deleted.  db is
   the outcome of db.commit(), which is reached after the files are
   removed; an exception of it leaves the handler as it is (500) and the
   session is rolled back *)
delete_video_db(current_user, video_id, db) ==
    /\ current_user \in ActiveUsers
    /\ IF video_id \notin DOMAIN videos
         THEN /\ response' = Response("delete_video", current_user, video_id,
                                      404, "Video not found", <<>>)
              /\ UNCHANGED <<videos, comments, watch_history, video_likes,
                             comment_likes, video_files, thumbnail_files>>
       ELSE IF ~IsUploader(current_user, video_id)
         THEN /\ response' = Response("delete_video", current_user, video_id,
                      403, "You do not have permission to delete this video",
                      <<>>)
              /\ UNCHANGED <<videos, comments, watch_history, video_likes,
                             comment_likes, video_files, thumbnail_files>>
       ELSE LET video == videos[video_id]
                gone == {c \in DOMAIN comments : comments[c].video_id = video_id}
            IN /\ video_files' = delete_file(video_files, video.file_path)
               /\ thumbnail_files' = RemoveThumbnail(thumbnail_files,
                                                     video.thumbnail_path)
               /\ IF db = "ok"
                    THEN /\ videos' = Del(videos, video_id)
                         /\ comments' = DeleteComments(gone)
                         /\ watch_history' =
                              [h \in {x \in DOMAIN watch_history :
                                        watch_history[x].video_id # video_id}
                                 |-> watch_history[h]]
                         /\ video_likes' = Unlink(video_likes, 2, {video_id})
                         /\ comment_likes' = Unlink(comment_likes, 2, gone)
                         /\ response' = Response("delete_video", current_user,
                                                 video_id, 204, "", <<>>)
                    ELSE /\ UNCHANGED <<videos, comments, watch_history,
                                        video_likes, comment_likes>>
                         /\ response' = Response("delete_video", current_user,
                                  video_id, 500, "Internal Server Error", <<>>)
    /\ UNCHANGED <<users, subscription, uuids, now, inflight>>

(* delete_video with a commit that goes through *)
delete_video(current_user, video_id) ==
    delete_video_db(current_user, video_id, "ok")

(* POST /videos/{video_id}/thumbnail: the old thumbnail is removed before
   the new one is checked and stored; an exception of save_thumbnail leaves
   the handler as it is (400 for the content type, 500 otherwise) *)
update_thumbnail(current_user, video_id, thumbnail_file) ==
    /\ current_user \in ActiveUsers
    /\ IF video_id \notin DOMAIN videos
         THEN /\ response' = Response("update_thumbnail", current_user,
                                      video_id, 404, "Video not found", <<>>)
              /\ UNCHANGED <<videos, thumbnail_files, uuids>>
       ELSE IF ~IsUploader(current_user, video_id)
         THEN /\ response' = Response("update_thumbnail", current_user,
                      video_id, 403,
                      "You do not have permission to update this video", <<>>)
              /\ UNCHANGED <<videos, thumbnail_files, uuids>>
       ELSE LET video == videos[video_id]
                saved == save_thumbnail(thumbnail_file,
                             RemoveThumbnail(thumbnail_files,
                                             video.thumbnail_path), uuids)
            IN /\ thumbnail_files' = saved.files
               /\ uuids' = saved.uuids
               /\ IF saved.raised
                    THEN /\ UNCHANGED videos
                         /\ response' =
                              IF thumbnail_file.content_type[1] # "image"
                                THEN Response("update_thumbnail", current_user,
                                         video_id, 400, "File is not an image",
                                         <<>>)
                                ELSE Response("update_thumbnail", current_user,
                                         video_id, 500, "Internal Server Error",
                                         <<>>)
                    ELSE /\ videos' = [videos EXCEPT ![video_id] =
                                         IF saved.path = video.thumbnail_path
                                           THEN video
                                           ELSE [video EXCEPT
                                                   !.thumbnail_path = saved.path,
                                                   !.updated_at = now]]
                         /\ response' = Response("update_thumbnail",
                                current_user, video_id, 200, "", <<video_id>>)
    /\ UNCHANGED <<users, comments, watch_history, subscription, video_likes,
                   comment_likes, video_files, now, inflight>>

(* update_comment taking a parent_id from the request as well *)
update_comment_reparent(current_user, comment_id, comment_update) ==
    /\ current_user \in ActiveUsers
    /\ comment_id \in DOMAIN comments
    /\ current_user = comments[comment_id].user_id
    /\ comments' = [comments EXCEPT ![comment_id] =
                      [field \in DOMAIN @ |->
                         IF Has(comment_update, field)
                           THEN comment_update[field] ELSE @[field]]]
    /\ response' = Response("update_comment", current_user, comment_id,
                            200, "", <<comment_id>>)
    /\ UNCHANGED <<users, videos, watch_history, subscription, video_likes,
                   comment_likes, storage, now, inflight>>

(* PUT /videos/comments/{comment_id} *)
update_comment(current_user, comment_id, comment_update) ==
    /\ current_user \in ActiveUsers
    /\ IF comment_id \notin DOMAIN comments
         THEN /\ response' = Response("update_comment", current_user,
                                      comment_id, 404, "Comment not found", <<>>)
              /\ UNCHANGED comments
       ELSE IF current_user # comments[comment_id].user_id
         THEN /\ response' = Response("update_comment", current_user,
                      comment_id, 403,
                      "You do not have permission to update this comment", <<>>)
              /\ UNCHANGED comments
       ELSE LET comment == comments[comment_id] IN
            /\ comments' = [comments EXCEPT ![comment_id] =
                              IF /\ Has(comment_update, "content")
                                 /\ comment_update.content # comment.content
                                THEN [comment EXCEPT
                                        !.content = comment_update.content,
                                        !.updated_at = now]
                                ELSE comment]
            /\ response' = Response("update_comment", current_user, comment_id,
                                    200, "", <<comment_id>>)
    /\ UNCHANGED <<users, videos, watch_history, subscription, video_likes,
                   comment_likes, storage, now, inflight>>

(* The test of delete_comment letting the author alone through *)
MayDeleteComment_author_only(current_user, comment_id) ==
    current_user = comments[comment_id].user_id

(* current_user.id != comment.user_id and current_user.id != video.uploader_id,
   negated; the video of a comment exists, comments going with their video *)
MayDeleteComment(current_user, comment_id) ==
    \/ current_user = comments[comment_id].user_id
    \/ current_user = videos[comments[comment_id].video_id].uploader_id

(* DELETE /videos/comments/{comment_id} *)
delete_comment(current_user, comment_id) ==
    /\ current_user \in ActiveUsers
    /\ IF comment_id \notin DOMAIN comments
         THEN /\ response' = Response("delete_comment", current_user,
                                      comment_id, 404, "Comment not found", <<>>)
              /\ UNCHANGED <<comments, comment_likes>>
       ELSE IF ~MayDeleteComment(current_user, comment_id)
         THEN /\ response' = Response("delete_comment", current_user,
                      comment_id, 403,
                      "You do not have permission to delete this comment", <<>>)
              /\ UNCHANGED <<comments, comment_likes>>
       ELSE /\ comments' = DeleteComments({comment_id})
            /\ comment_likes' = Unlink(comment_likes, 2, {comment_id})
            /\ response' = Response("delete_comment", current_user, comment_id,
                                    204, "", <<>>)
    /\ UNCHANGED <<users, videos, watch_history, subscription, video_likes,
                   storage, now, inflight>>

-----------------------------------------------------------------------------
(* src/app/routes/user.py: PUT /users/me; user_update holds the fields of
   UserUpdate that are not None.  A username is changed when it is not empty
   and differs; nothing is committed when a test raises. *)

(* Column(String, unique=True) on username and on email: the commit of a row
   for user id goes through *)
UniqueColumns(id, username, email) ==
    \A u \in DOMAIN users \ {id} :
        users[u].username # username /\ users[u].email # email

(* user_update.username and user_update.username != current_user.username *)
NewUsername(user, user_update) ==
    /\ Has(user_update, "username")
    /\ user_update.username # ""
    /\ user_update.username # user.username

(* user_update.email and user_update.email != current_user.email *)
NewEmail(user, user_update) ==
    /\ Has(user_update, "email")
    /\ user_update.email # ""
    /\ user_update.email # user.email

(* The assignments to current_user (user.py:78-100); a column never
   assigned is no field of the record *)
Assigned(user, user_update) ==
    LET username == IF NewUsername(user, user_update)
                      THEN [username |-> user_update.username] ELSE <<>>
        email == IF NewEmail(user, user_update)
                   THEN [email |-> user_update.email] ELSE <<>>
        full_name == IF Has(user_update, "full_name")
                       THEN [full_name |-> user_update.full_name] ELSE <<>>
        bio == IF Has(user_update, "bio")
                 THEN [bio |-> user_update.bio] ELSE <<>>
        hashed_password ==
            IF Has(user_update, "password") /\ user_update.password # ""
              THEN [hashed_password |-> <<"hash", user_update.password>>]
              ELSE <<>>
    IN  username @@ email @@ full_name @@ bio @@ hashed_password @@ user

(* update_user committing the username before it tests the email *)
update_user_partial(current_user, user_update) ==
    LET user == users[current_user] IN
    /\ current_user \in ActiveUsers
    /\ NewUsername(user, user_update)
    /\ UserByUsername(user_update.username) = None
    /\ NewEmail(user, user_update)
    /\ UserByEmail(user_update.email) # None
    /\ users' = [users EXCEPT ![current_user].username = user_update.username]
    /\ response' = Response("update_user", current_user, current_user,
                            400, "Email already registered", <<>>)
    /\ UNCHANGED <<videos, comments, watch_history, subscription, video_likes,
                   comment_likes, storage, now, inflight>>

update_user(current_user, user_update) ==
    LET user == users[current_user] IN
    /\ current_user \in ActiveUsers
    /\ IF /\ NewUsername(user, user_update)
          /\ UserByUsername(user_update.username) # None
         THEN /\ response' = Response("update_user", current_user, current_user,
                                      400, "Username already taken", <<>>)
              /\ UNCHANGED users
       ELSE IF /\ NewEmail(user, user_update)
               /\ UserByEmail(user_update.email) # None
         THEN /\ response' = Response("update_user", current_user, current_user,
                                      400, "Email already registered", <<>>)
              /\ UNCHANGED users
       ELSE /\ users' = [users EXCEPT ![current_user] =
                           Assigned(user, user_update)]
            /\ response' = Response("update_user", current_user, current_user,
                                    200, "", <<current_user>>)
    /\ UNCHANGED <<videos, comments, watch_history, subscription, video_likes,
                   comment_likes, storage, now, inflight>>

(* register_user as two steps of a request that runs beside others: the two
   lookups (auth.py:53-66), which leave the request in flight, ... *)
register_user_lookup(user) ==
    /\ IF UserByUsername(user.username) # None
         THEN /\ response' = Response("register_user", None, None, 400,
                                      "Username already registered", <<>>)
              /\ UNCHANGED inflight
       ELSE IF UserByEmail(user.email) # None
         THEN /\ response' = Response("register_user", None, None, 400,
                                      "Email already registered", <<>>)
              /\ UNCHANGED inflight
       ELSE /\ user \notin inflight
            /\ inflight' = inflight \cup {user}
            /\ UNCHANGED response
    /\ UNCHANGED <<tables, storage, now>>

(* ... and the insert with its commit (auth.py:69-83), which the unique
   columns of the table refuse (IntegrityError, a 500) when a row with the
   username or the email has been committed meanwhile *)
register_user_commit(user) ==
    /\ user \in inflight
    /\ inflight' = inflight \ {user}
    /\ IF UniqueColumns(None, user.username, user.email)
         THEN LET id == NextId(users) IN
              /\ users' = Put(users, id, [username |-> user.username,
                                          email |-> user.email,
                                          is_active |-> TRUE])
              /\ response' = Response("register_user", None, id, 201, "",
                                      <<id>>)
         ELSE /\ UNCHANGED users
              /\ response' = Response("register_user", None, None, 500,
                                      "Internal Server Error", <<>>)
    /\ UNCHANGED <<videos, comments, watch_history, subscription, video_likes,
                   comment_likes, storage, now>>

-----------------------------------------------------------------------------
(* src/app/routes/auth.py: POST /token and GET /users/me.  A token is held
   by its client; it carries the subject only, user is the account it was
   issued to. *)

(* authenticate_user, for a client that knows the password of the account *)
authenticate_user(username) == UserByUsername(username)

(* The account a token resolves to: the active user whose username is the
   subject of the token *)
get_current_active_user(token) ==
    LET user == UserByUsername(token.sub) IN
    IF user # None /\ users[user].is_active THEN user ELSE None

(* POST /token: data={"sub": user.username} *)
login_for_access_token(username) ==
    LET user == authenticate_user(username) IN
    /\ IF user = None
         THEN /\ response' = Response("login_for_access_token", None, None, 401,
                                      "Incorrect username or password", <<>>)
              /\ UNCHANGED inflight
         ELSE /\ inflight' = inflight \cup
                    {[op |-> "token", sub |-> users[user].username,
                      user |-> user]}
              /\ response' = Response("login_for_access_token", None, user,
                                      200, "", <<>>)
    /\ UNCHANGED <<tables, storage, now>>

(* GET /users/me with a token *)
read_users_me(token) ==
    LET current_user == get_current_active_user(token) IN
    /\ token \in inflight
    /\ token.op = "token"
    /\ IF current_user = None
         THEN response' = Response("read_users_me", None, None, 401,
                                   "Could not validate credentials", <<>>)
         ELSE response' = Response("read_users_me", current_user, current_user,
                                   200, "", <<current_user>>)
    /\ UNCHANGED <<tables, storage, now, inflight>>

-----------------------------------------------------------------------------
(* src/app/routes/user.py: subscriptions *)

(* The self-subscription test comparing the wrong way round *)
SelfSubscription_inverted(current_user, channel) == current_user # channel

(* current_user.id == channel.id *)
SelfSubscription(current_user, channel) == current_user = channel

(* channel in current_user.subscriptions *)
Subscribed(current_user, channel) ==
    BagIn(<<current_user, channel>>, subscription)

(* POST /users/{username}/subscribe *)
subscribe_to_user(current_user, username) ==
    LET channel == UserByUsername(username) IN
    /\ current_user \in ActiveUsers
    /\ IF channel = None
         THEN /\ response' = Response("subscribe_to_user", current_user, None,
                                      404, "User not found", <<>>)
              /\ UNCHANGED subscription
       ELSE IF SelfSubscription(current_user, channel)
         THEN /\ response' = Response("subscribe_to_user", current_user, channel,
                                 400, "You cannot subscribe to yourself", <<>>)
              /\ UNCHANGED subscription
       ELSE IF Subscribed(current_user, channel)
         THEN /\ response' = Response("subscribe_to_user", current_user, channel,
                          400, "You are already subscribed to this user", <<>>)
              /\ UNCHANGED subscription
       ELSE   /\ subscription' =
                     subscription (+) SetToBag({<<current_user, channel>>})
              /\ response' = Response("subscribe_to_user", current_user, channel,
                                      200, "", <<channel>>)
    /\ UNCHANGED <<users, videos, comments, watch_history, video_likes,
                   comment_likes, storage, now, inflight>>

(* subscribe_to_user as two steps of a request that runs beside others: the
   query and the tests up to the membership test (user.py:158-178), ... *)
subscribe_to_user_check(current_user, username, n) ==
    LET channel == UserByUsername(username) IN
    /\ current_user \in ActiveUsers
    /\ IF channel = None
         THEN /\ response' = Response("subscribe_to_user", current_user, None,
                                      404, "User not found", <<>>)
              /\ UNCHANGED inflight
       ELSE IF SelfSubscription(current_user, channel)
         THEN /\ response' = Response("subscribe_to_user", current_user, channel,
                                 400, "You cannot subscribe to yourself", <<>>)
              /\ UNCHANGED inflight
       ELSE IF Subscribed(current_user, channel)
         THEN /\ response' = Response("subscribe_to_user", current_user, channel,
                          400, "You are already subscribed to this user", <<>>)
              /\ UNCHANGED inflight
       ELSE   /\ \A r \in inflight : r.n # n
              /\ inflight' = inflight \cup
                    {[op |-> "subscribe_to_user", current_user |-> current_user,
                      target |-> channel, n |-> n]}
              /\ UNCHANGED response
    /\ UNCHANGED <<tables, storage, now>>

(* ... and the append with its commit (user.py:181-185): an INSERT into
   subscription, a table without a key *)
subscribe_to_user_commit(request) ==
    /\ request \in inflight
    /\ request.op = "subscribe_to_user"
    /\ inflight' = inflight \ {request}
    /\ subscription' = subscription (+)
                         SetToBag({<<request.current_user, request.target>>})
    /\ response' = Response("subscribe_to_user", request.current_user,
                            request.target, 200, "", <<request.target>>)
    /\ UNCHANGED <<users, videos, comments, watch_history, video_likes,
                   comment_likes, storage, now>>

(* POST /users/{username}/unsubscribe *)
unsubscribe_from_user(current_user, username) ==
    LET channel == UserByUsername(username) IN
    /\ current_user \in ActiveUsers
    /\ IF channel = None
         THEN /\ response' = Response("unsubscribe_from_user", current_user,
                                      None, 404, "User not found", <<>>)
              /\ UNCHANGED subscription
       ELSE IF ~Subscribed(current_user, channel)
         THEN /\ response' = Response("unsubscribe_from_user", current_user,
                     channel, 400, "You are not subscribed to this user", <<>>)
              /\ UNCHANGED subscription
       ELSE   /\ subscription' =
                     subscription (-) SetToBag({<<current_user, channel>>})
              /\ response' = Response("unsubscribe_from_user", current_user,
                                      channel, 200, "", <<channel>>)
    /\ UNCHANGED <<users, videos, comments, watch_history, video_likes,
                   comment_likes, storage, now, inflight>>

-----------------------------------------------------------------------------
(* src/app/routes/search.py and the other listings *)

(* Only public videos are listed *)
PublicVideos_unfiltered == DOMAIN videos

(* filter(Video.is_private == False) *)
PublicVideos == {v \in DOMAIN videos : ~videos[v].is_private}

ToLower == [A |-> "a", C |-> "c", D |-> "d", G |-> "g", O |-> "o", T |-> "t"]

Lower(c) == IF c \in DOMAIN ToLower THEN ToLower[c] ELSE c

(* column.ilike("%query%"), for a query without the wildcards % and _ *)
ILike(text, query) ==
    \E i \in 0..(Len(text) - Len(query)) :
        \A j \in 1..Len(query) : Lower(text[i + j]) = Lower(query[j])

(* The orders order_by may return: by the column, descending or ascending,
   rows with equal keys in any order *)
Orderings(S, column, descending) ==
    {q \in [1..Cardinality(S) -> S] :
        /\ \A i, j \in DOMAIN q : i # j => q[i] # q[j]
        /\ \A i, j \in DOMAIN q :
             i < j => IF descending
                        THEN videos[q[i]][column] >= videos[q[j]][column]
                        ELSE videos[q[i]][column] <= videos[q[j]][column]}

(* GET /search/videos: params holds the fields of VideoSearchParams that are
   not None *)
search_videos(params) ==
    LET matching ==
            IF Has(params, "query") /\ params.query # <<>>
              THEN {v \in PublicVideos :
                      \/ ILike(videos[v].title, params.query)
                      \/ ILike(videos[v].description, params.query)}
              ELSE PublicVideos
        joined ==
            IF Has(params, "uploader") /\ params.uploader # ""
              THEN {v \in matching :
                      /\ videos[v].uploader_id \in DOMAIN users
                      /\ users[videos[v].uploader_id].username = params.uploader}
              ELSE matching
        filtered ==
            {v \in joined :
               /\ Has(params, "min_duration") =>
                    videos[v].duration >= params.min_duration
               /\ Has(params, "max_duration") =>
                    videos[v].duration <= params.max_duration}
        column == CASE params.sort_by = "views" -> "views"
                    [] params.sort_by = "duration" -> "duration"
                    [] OTHER -> "created_at"
    IN
    /\ \E rows \in Orderings(filtered, column, params.sort_order # "asc") :
         response' = Response("search_videos", None, None, 200, "",
                              Page(rows, params.offset, params.limit))
    /\ UNCHANGED <<tables, storage, now, inflight>>

(* GET /search/trending *)
get_trending_videos(limit) ==
    /\ \E rows \in Orderings(PublicVideos, "views", TRUE) :
         response' = Response("get_trending_videos", None, None, 200, "",
                              Page(rows, 0, limit))
    /\ UNCHANGED <<tables, storage, now, inflight>>

(* GET /search/latest *)
get_latest_videos(limit) ==
    /\ \E rows \in Orderings(PublicVideos, "created_at", TRUE) :
         response' = Response("get_latest_videos", None, None, 200, "",
                              Page(rows, 0, limit))
    /\ UNCHANGED <<tables, storage, now, inflight>>

(* GET /videos/ *)
get_videos(current_user, skip, limit) ==
    /\ current_user \in ActiveUsers
    /\ response' = Response("get_videos", current_user, None, 200, "",
                            Page(InIdOrder(PublicVideos), skip, limit))
    /\ UNCHANGED <<tables, storage, now, inflight>>

(* GET /users/{username}/videos *)
get_user_videos(current_user, username, skip, limit) ==
    LET user == UserByUsername(username) IN
    /\ current_user \in ActiveUsers
    /\ IF user = None
         THEN response' = Response("get_user_videos", current_user, None, 404,
                                   "User not found", <<>>)
         ELSE response' = Response("get_user_videos", current_user, user, 200, "",
                  Page(InIdOrder(IF current_user = user
                                   THEN {v \in DOMAIN videos :
                                           videos[v].uploader_id = user}
                                   ELSE {v \in PublicVideos :
                                           videos[v].uploader_id = user}),
                       skip, limit))
    /\ UNCHANGED <<tables, storage, now, inflight>>

-----------------------------------------------------------------------------
(* The bounds of a run, on the state a request leaves *)

VideosWithin(n) ==
    /\ Cardinality(DOMAIN videos') <= n
    /\ uuids' <= 2 * n

ViewsWithin(n) == \A v \in DOMAIN videos' : videos'[v].views <= n

CommentsWithin(n) == Cardinality(DOMAIN comments') <= n

UsersWithin(n) == Cardinality(DOMAIN users') <= n

VideoIds == 1..MaxVideos

CommentIds == 1..MaxComments

(* positions in a video, in seconds *)
Positions == {5, 9}

-----------------------------------------------------------------------------
(* The operations open to the viewers of a video, requests handled one at
   a time. *)

NextPrivate ==
    \/ \E u \in ActiveUsers, p \in BOOLEAN :
         /\ create_video(u, PlainForm(p), NoTool, "ok")
         /\ VideosWithin(MaxVideos)
    \/ \E u \in ActiveUsers, v \in VideoIds, p \in BOOLEAN :
         update_video(u, v, [is_private |-> p])
    \/ \E u \in ActiveUsers, v \in VideoIds :
         get_video(u, v) /\ ViewsWithin(MaxViews)
    \/ \E u \in ActiveUsers, v \in VideoIds : like_video(u, v)
    \/ \E u \in ActiveUsers, v \in VideoIds, parent \in {None} \cup CommentIds :
         /\ create_comment(u, v, [content |-> "text", parent_id |-> parent])
         /\ CommentsWithin(MaxComments)
    \/ \E u \in ActiveUsers, v \in VideoIds, t \in Positions :
         update_watch_history(u, v, t)

SpecPrivate == Init /\ [][NextPrivate]_vars

-----------------------------------------------------------------------------
(* C1: on a private video, get_video, like_video, create_comment and
   update_watch_history by a caller other than the uploader answer 403 and
   leave every table and both storage directories as they were; by the
   uploader they are never refused for permission: get_video counts the view,
   update_watch_history leaves a row for the pair, like_video adds the like
   unless it is there already (400), create_comment adds the comment unless
   its parent_id is rejected. *)

ViewerOps == {"get_video", "like_video", "create_comment", "update_watch_history"}

UploaderServed(v) ==
    LET u == videos[v].uploader_id IN
    /\ response'.status # 403
    /\ response'.op = "get_video" =>
         /\ response'.status = 200
         /\ videos'[v].views = videos[v].views + 1
    /\ response'.op = "update_watch_history" =>
         /\ response'.status = 200
         /\ \E h \in DOMAIN watch_history' :
              /\ watch_history'[h].user_id = u
              /\ watch_history'[h].video_id = v
    /\ response'.op = "like_video" =>
         IF BagIn(<<u, v>>, video_likes)
           THEN response'.status = 400 /\ UNCHANGED video_likes
           ELSE response'.status = 200 /\ CopiesIn(<<u, v>>, video_likes') = 1
    /\ response'.op = "create_comment" =>
         IF response'.detail \in {"Parent comment not found",
                                  "Parent comment does not belong to this video"}
           THEN UNCHANGED comments
           ELSE /\ response'.status = 201
                /\ DOMAIN comments' # DOMAIN comments

C1_PrivateVideoViewers ==
    [][\A v \in DOMAIN videos :
          (/\ videos[v].is_private
           /\ response'.op \in ViewerOps
           /\ response'.target = v)
          => IF response'.caller # videos[v].uploader_id
               THEN /\ response'.status = 403
                    /\ UNCHANGED <<tables, storage>>
               ELSE UploaderServed(v)]_vars

(* A private video that has been viewed, and a refused watch-history report
   by another user *)
C1_Witness ==
    /\ response.op = "update_watch_history"
    /\ response.status = 403
    /\ response.target \in DOMAIN videos
    /\ videos[response.target].is_private
    /\ videos[response.target].views > 0
    /\ response.caller # videos[response.target].uploader_id


-----------------------------------------------------------------------------
(* Comments on public and private videos, and likes on them *)

NextComments ==
    \/ \E u \in ActiveUsers, p \in BOOLEAN :
         /\ create_video(u, PlainForm(p), NoTool, "ok")
         /\ VideosWithin(MaxVideos)
    \/ \E u \in ActiveUsers, v \in VideoIds, p \in BOOLEAN :
         update_video(u, v, [is_private |-> p])
    \/ \E u \in ActiveUsers, v \in VideoIds, parent \in {None} \cup CommentIds :
         /\ create_comment(u, v, [content |-> "text", parent_id |-> parent])
         /\ CommentsWithin(MaxComments)
    \/ \E v \in VideoIds, skip \in 0..1, limit \in {1, 10} :
         get_comments(v, skip, limit)
    \/ \E u \in ActiveUsers, c \in CommentIds : like_comment(u, c)
    \/ \E u \in ActiveUsers, c \in CommentIds : unlike_comment(u, c)

SpecComments == Init /\ [][NextComments]_vars

(* C2: get_comments on a private video answers 403 and returns no comment
   unless the caller is the uploader. *)
C2_CommentsOfPrivateVideo ==
    (/\ response.op = "get_comments"
     /\ response.target \in DOMAIN videos
     /\ videos[response.target].is_private
     /\ response.caller # videos[response.target].uploader_id)
    => (response.status = 403 /\ response.body = <<>>)

(* C5: like_comment by a caller other than the uploader of the comment's
   video answers 403 when that video is private, and leaves comment_likes
   as it was. *)
C5_LikeCommentOfPrivateVideo ==
    [][\A c \in DOMAIN comments :
          (/\ response'.op = "like_comment"
           /\ response'.target = c
           /\ comments[c].video_id \in DOMAIN videos
           /\ videos[comments[c].video_id].is_private
           /\ response'.caller # videos[comments[c].video_id].uploader_id)
          => (response'.status = 403 /\ UNCHANGED comment_likes)]_vars


-----------------------------------------------------------------------------
(* What the handlers that read a video give out *)

NextDisclosure ==
    \/ \E u \in ActiveUsers, p \in BOOLEAN, tool \in {NoTool, GoodTool} :
         /\ create_video(u, PlainForm(p), tool, "ok")
         /\ VideosWithin(MaxVideos)
    \/ \E u \in ActiveUsers, v \in VideoIds, p \in BOOLEAN :
         update_video(u, v, [is_private |-> p])
    \/ \E u \in ActiveUsers, v \in VideoIds :
         get_video(u, v) /\ ViewsWithin(MaxViews)
    \/ \E u \in ActiveUsers, v \in VideoIds, t \in Positions :
         update_watch_history(u, v, t)
    \/ \E u \in ActiveUsers, skip \in 0..1 : get_watch_history(u, skip, 10)
    \/ \E v \in VideoIds : video_page(v)
    \/ \E f \in 1..(2 * MaxVideos) : get_video_file(f)
    \/ \E f \in 0..(2 * MaxVideos) : get_thumbnail_file(f)

SpecDisclosure == Init /\ [][NextDisclosure]_vars

(* The videos whose record (a Video schema, also nested in a WatchHistory
   schema) or whose file is in the last response *)
VideosShown ==
    IF response.status \notin {200, 201} THEN {}
    ELSE CASE response.op \in {"get_video", "video_page", "update_video",
                               "like_video", "unlike_video", "create_video",
                               "update_watch_history"} ->
                  {response.target} \cap DOMAIN videos
           [] response.op = "get_watch_history" ->
                  {watch_history[response.body[i]].video_id :
                     i \in DOMAIN response.body} \cap DOMAIN videos
           [] response.op = "get_video_file" ->
                  {v \in DOMAIN videos : videos[v].file_path = response.target}
           [] response.op = "get_thumbnail_file" ->
                  {v \in DOMAIN videos :
                     /\ videos[v].thumbnail_path = response.target
                     /\ response.target # DEFAULT_THUMBNAIL_PATH}
           [] OTHER -> {}

(* C3: no response shows the record or a file of a private video to a
   caller other than its uploader. *)
C3_PrivateVideoShownToUploaderOnly ==
    \A v \in VideosShown :
        videos[v].is_private => response.caller = videos[v].uploader_id


-----------------------------------------------------------------------------
(* Listings over a mix of public and private videos that differ in title,
   duration, views and age *)

MaxListed == 2

MaxListedViews == 1

MaxTime == 1

(* a clip whose length is unknown and one of 67 seconds *)
Clips == {[title |-> <<"c", "a", "t">>, tool |-> NoTool],
          [title |-> <<"D", "o", "g">>, tool |-> GoodTool]}

Queries == {<<"C", "A">>, <<"o", "g">>}

Usernames == {"admin", "test", "nobody"}

SearchParams ==
    {[sort_by |-> "created_at", sort_order |-> "desc", limit |-> 10, offset |-> 0]}
    \cup [query : Queries, sort_by : {"views", "duration", "created_at"},
          sort_order : {"asc", "desc"}, limit : {1}, offset : {0, 1}]
    \cup [uploader : Usernames, min_duration : {60}, sort_by : {"views"},
          sort_order : {"desc"}, limit : {10}, offset : {0}]
    \cup [query : {<<>>}, uploader : {""}, max_duration : {0},
          sort_by : {"duration"}, sort_order : {"asc"}, limit : {10},
          offset : {0}]

NextListing ==
    \/ \E u \in ActiveUsers, p \in BOOLEAN, clip \in Clips :
         /\ create_video(u, [PlainForm(p) EXCEPT !.title = clip.title],
                         clip.tool, "ok")
         /\ VideosWithin(MaxListed)
    \/ \E u \in ActiveUsers, v \in 1..MaxListed, p \in BOOLEAN :
         update_video(u, v, [is_private |-> p])
    \/ \E u \in ActiveUsers, v \in 1..MaxListed :
         get_video(u, v) /\ ViewsWithin(MaxListedViews)
    \/ Tick /\ now' <= MaxTime
    \/ \E params \in SearchParams : search_videos(params)
    \/ \E limit \in {1, 10} : get_trending_videos(limit)
    \/ \E limit \in {1, 10} : get_latest_videos(limit)
    \/ \E u \in ActiveUsers, skip \in 0..1 : get_videos(u, skip, 10)
    \/ \E u \in ActiveUsers, username \in Usernames :
         get_user_videos(u, username, 0, 10)

SpecListing == Init /\ [][NextListing]_vars

Listings == {"search_videos", "get_trending_videos", "get_latest_videos",
             "get_videos", "get_user_videos"}

(* C4: a listing never returns a private video, except get_user_videos to
   the uploader of that video. *)
C4_ListingsHidePrivateVideos ==
    response.op \in Listings =>
      \A i \in DOMAIN response.body :
         LET v == response.body[i] IN
         videos[v].is_private =>
           /\ response.op = "get_user_videos"
           /\ response.caller = videos[v].uploader_id
           /\ response.target = videos[v].uploader_id

(* A search over a public and a private video by the same uploader that
   returns the public one *)
C4_Witness ==
    /\ response.op = "search_videos"
    /\ Len(response.body) = 1
    /\ \E v \in DOMAIN videos :
         /\ videos[v].is_private
         /\ videos[v].title = videos[response.body[1]].title
         /\ videos[v].uploader_id = videos[response.body[1]].uploader_id


-----------------------------------------------------------------------------
(* Likes on videos and on comments *)

MaxLikedComments == 1

NextLikes ==
    \/ \E u \in ActiveUsers, p \in BOOLEAN :
         /\ create_video(u, PlainForm(p), NoTool, "ok")
         /\ VideosWithin(MaxVideos)
    \/ \E u \in ActiveUsers, v \in VideoIds, p \in BOOLEAN :
         update_video(u, v, [is_private |-> p])
    \/ \E u \in ActiveUsers, v \in VideoIds :
         /\ create_comment(u, v, [content |-> "text", parent_id |-> None])
         /\ CommentsWithin(MaxLikedComments)
    \/ \E u \in ActiveUsers, v \in VideoIds : like_video(u, v)
    \/ \E u \in ActiveUsers, v \in VideoIds : unlike_video(u, v)
    \/ \E u \in ActiveUsers, c \in 1..MaxLikedComments : like_comment(u, c)
    \/ \E u \in ActiveUsers, c \in 1..MaxLikedComments : unlike_comment(u, c)

SpecLikes == Init /\ [][NextLikes]_vars

(* One toggle pair on one join table, over a step: Like and Unlike name the
   two handlers, edge is <<caller, target>>.
     - a like of an edge that is in the table fails and changes nothing: 400
       with the detail Already, unless the permission check (like_video on a
       private video of another user) has refused it first with 403;
     - an unlike of an edge that is not in the table fails with 400 and the
       detail Not, and changes nothing;
     - a successful like adds exactly the edge, which was absent;
     - a successful unlike removes exactly the edge, leaving it absent;
     - an unlike right after the successful like of the same edge succeeds;
   so like then unlike gives back the table as it was before the like. *)
Toggle(Like, Unlike, Already, Not, likes, likes_after, present, refused) ==
    LET edge == <<response'.caller, response'.target>> IN
    /\ (response'.op = Like /\ present /\ BagIn(edge, likes)) =>
         /\ \/ response'.status = 400 /\ response'.detail = Already
            \/ response'.status = 403 /\ refused
         /\ likes_after = likes
    /\ (response'.op = Unlike /\ present /\ ~BagIn(edge, likes)) =>
         /\ response'.status = 400 /\ response'.detail = Not
         /\ likes_after = likes
    /\ (response'.op = Like /\ response'.status = 200) =>
         /\ ~BagIn(edge, likes)
         /\ likes_after = likes (+) SetToBag({edge})
    /\ (response'.op = Unlike /\ response'.status = 200) =>
         /\ ~BagIn(edge, likes_after)
         /\ likes = likes_after (+) SetToBag({edge})
    /\ (/\ response.op = Like /\ response.status = 200
        /\ response'.op = Unlike
        /\ response'.caller = response.caller
        /\ response'.target = response.target) =>
         response'.status = 200

(* C6: like and unlike of a video, and of a comment, are toggles in the
   sense of Toggle. *)
C6_LikeToggles ==
    [][/\ Toggle("like_video", "unlike_video",
                 "You have already liked this video",
                 "You have not liked this video",
                 video_likes, video_likes',
                 response'.target \in DOMAIN videos,
                 /\ response'.target \in DOMAIN videos
                 /\ Hidden(response'.caller, response'.target))
       /\ Toggle("like_comment", "unlike_comment",
                 "You have already liked this comment",
                 "You have not liked this comment",
                 comment_likes, comment_likes',
                 response'.target \in DOMAIN comments, FALSE)]_vars

(* An unlike of a video right after its like, with the other user's like on
   the same video still in place *)
C6_Witness ==
    /\ response.op = "unlike_video"
    /\ response.status = 200
    /\ ~BagIn(<<response.caller, response.target>>, video_likes)
    /\ \E u \in DOMAIN users :
         u # response.caller /\ BagIn(<<u, response.target>>, video_likes)

-----------------------------------------------------------------------------
(* Subscriptions among the users, new users registering *)

MaxUsers == 3

Channels == {"admin", "test", "carol", "nobody"}

NewUsers == {[username |-> "carol", email |-> "carol@example.com"],
             [username |-> "admin", email |-> "other@example.com"],
             [username |-> "dave", email |-> "test@example.com"]}

NextSubscriptions ==
    \/ \E user \in NewUsers : register_user(user) /\ UsersWithin(MaxUsers)
    \/ \E u \in ActiveUsers, name \in Channels : subscribe_to_user(u, name)
    \/ \E u \in ActiveUsers, name \in Channels : unsubscribe_from_user(u, name)

SpecSubscriptions == Init /\ [][NextSubscriptions]_vars

(* C7: subscribing to oneself fails, so no user is ever subscribed to
   themselves; subscribing to a channel one is subscribed to fails;
   unsubscribing from a channel one is not subscribed to fails; every failing
   call leaves the subscription table as it was; a successful subscribe adds
   exactly the edge and a successful unsubscribe removes exactly it, and the
   unsubscribe right after a subscribe succeeds, so the pair gives back the
   table (and with it the channel's subscribers) as it was. *)
C7_Subscriptions ==
    [][LET edge == <<response'.caller, response'.target>>
           Sub == response'.op = "subscribe_to_user"
           Unsub == response'.op = "unsubscribe_from_user"
       IN
       /\ \A u \in DOMAIN users' : ~BagIn(<<u, u>>, subscription')
       /\ (Sub /\ response'.target = response'.caller) =>
            /\ response'.status = 400
            /\ response'.detail = "You cannot subscribe to yourself"
       /\ (Sub /\ BagIn(edge, subscription)) =>
            /\ response'.status = 400
            /\ response'.detail = "You are already subscribed to this user"
       /\ (Unsub /\ response'.target # None /\ ~BagIn(edge, subscription)) =>
            /\ response'.status = 400
            /\ response'.detail = "You are not subscribed to this user"
       /\ ((Sub \/ Unsub) /\ response'.status # 200) => UNCHANGED subscription
       /\ (Sub /\ response'.status = 200) =>
            /\ ~BagIn(edge, subscription)
            /\ subscription' = subscription (+) SetToBag({edge})
       /\ (Unsub /\ response'.status = 200) =>
            /\ ~BagIn(edge, subscription')
            /\ subscription = subscription' (+) SetToBag({edge})
       /\ (/\ response.op = "subscribe_to_user" /\ response.status = 200
           /\ Unsub
           /\ response'.caller = response.caller
           /\ response'.target = response.target) =>
            response'.status = 200]_vars

(* An unsubscribe right after the subscribe, the channel keeping its other
   subscriber *)
C7_Witness ==
    /\ response.op = "unsubscribe_from_user"
    /\ response.status = 200
    /\ ~BagIn(<<response.caller, response.target>>, subscription)
    /\ \E u \in DOMAIN users :
         u # response.caller /\ BagIn(<<u, response.target>>, subscription)


-----------------------------------------------------------------------------
(* Watch history, one request at a time *)

MaxWatched == 2

NextHistory ==
    \/ \E u \in ActiveUsers, p \in BOOLEAN :
         /\ create_video(u, PlainForm(p), NoTool, "ok")
         /\ VideosWithin(MaxWatched)
    \/ \E u \in ActiveUsers, v \in 1..MaxWatched, t \in Positions :
         update_watch_history(u, v, t)

SpecHistory == Init /\ [][NextHistory]_vars

HistoryRows(history, user_id, video_id) ==
    {h \in DOMAIN history : /\ history[h].user_id = user_id
                            /\ history[h].video_id = video_id}

(* C8: after every accepted report of position t by user u for video v
   there is exactly one row for (u, v) and its timestamp is t; a report that
   finds a row for the pair adds none (the second of two reports overwrites
   the row of the first); the rows of every other pair are as before. *)
C8_SecondReportOverwrites ==
    [][\A u \in DOMAIN users, v \in 1..MaxWatched, t \in Positions :
         (update_watch_history(u, v, t) /\ response'.status = 200) =>
            /\ Cardinality(HistoryRows(watch_history', u, v)) = 1
            /\ \A h \in HistoryRows(watch_history', u, v) :
                 watch_history'[h].timestamp = t
            /\ HistoryRows(watch_history, u, v) # {} =>
                 DOMAIN watch_history' = DOMAIN watch_history
            /\ \A h \in DOMAIN watch_history \ HistoryRows(watch_history, u, v) :
                 /\ h \in DOMAIN watch_history'
                 /\ watch_history'[h] = watch_history[h]
            /\ DOMAIN watch_history' \ HistoryRows(watch_history', u, v)
                 \subseteq DOMAIN watch_history]_vars

(* A second report answered: the row it returns is older than another row
   of the table, holds the later position, and is the only one of its pair *)
C8_Witness ==
    /\ response.op = "update_watch_history"
    /\ response.status = 200
    /\ \E h \in DOMAIN watch_history :
         /\ response.body = <<h>>
         /\ watch_history[h].timestamp = 9
         /\ \E later \in DOMAIN watch_history : later > h
         /\ HistoryRows(watch_history, watch_history[h].user_id,
                        watch_history[h].video_id) = {h}

-----------------------------------------------------------------------------
(* Watch history, the requests running beside each other *)

MaxInflight == 2
MaxRows == 3

NextConcurrentHistory ==
    \/ \E u \in ActiveUsers, p \in BOOLEAN :
         /\ create_video(u, PlainForm(p), NoTool, "ok")
         /\ VideosWithin(MaxVideos)
    \/ \E u \in ActiveUsers, v \in VideoIds, t \in Positions :
         /\ update_watch_history_lookup(u, v, t)
         /\ Cardinality(inflight') <= MaxInflight
    \/ \E request \in inflight :
         /\ update_watch_history_commit(request)
         /\ Cardinality(DOMAIN watch_history') <= MaxRows

SpecConcurrentHistory == Init /\ [][NextConcurrentHistory]_vars

(* C9: in every state there is at most one watch_history row for each
   (user, video) pair, the requests running beside each other included. *)
C9_OneRowPerPair ==
    \A u \in DOMAIN users, v \in DOMAIN videos :
        Cardinality(HistoryRows(watch_history, u, v)) <= 1

-----------------------------------------------------------------------------
(* Uploads, with every behaviour of the stores, the tool and the session *)

ImageTypes == {<<"image", "png">>, <<"video", "mp4">>}

UploadForm(video_file, thumbnail_file) ==
    [title |-> <<"c", "a", "t">>, description |-> <<>>, is_private |-> FALSE,
     video_file |-> video_file, thumbnail_file |-> thumbnail_file]

Sessions == {"ok", "commit_fails", "refresh_fails"}

NextUpload ==
    \/ \E u \in ActiveUsers, video_file \in Uploads("video", VideoTypes),
          tool \in Tools, db \in Sessions :
         /\ create_video(u, UploadForm(video_file, NoFile), tool, db)
         /\ VideosWithin(MaxVideos)
    \/ \E u \in ActiveUsers, video_file \in Uploads("video", VideoTypes),
          thumbnail_file \in Uploads("image", ImageTypes), db \in Sessions :
         /\ create_video(u, UploadForm(video_file, thumbnail_file), NoTool, db)
         /\ VideosWithin(MaxVideos)

SpecUpload == Init /\ [][NextUpload]_vars

(* the thumbnail run of the tool is absent or fails *)
NoFrame(tool) ==
    \/ ~tool.installed_1
    \/ tool.frame \in {"empty", "missing", "CalledProcessError", "Exception"}

(* the duration run of the tool is absent or fails *)
NoDuration(tool) ==
    \/ ~tool.installed_2
    \/ tool.probe \in {"N/A", "none", "Exception"}

(* An upload of a valid stream without a thumbnail, the tool absent or
   failing in both runs and the session working, succeeds with the default
   thumbnail and duration 0. *)
UploadFallsBack(tool, db) ==
    (NoFrame(tool) /\ NoDuration(tool) /\ db = "ok") =>
        /\ response'.status = 201
        /\ response'.target \in DOMAIN videos'
        /\ videos'[response'.target].thumbnail_path = DEFAULT_THUMBNAIL_PATH
        /\ videos'[response'.target].duration = 0

(* A successful upload leaves a record whose thumbnail is the default one or
   a file this request derived, and whose duration is not negative. *)
UploadRecord ==
    response'.status = 201 =>
        /\ response'.target \in DOMAIN videos'
        /\ LET thumbnail_path == videos'[response'.target].thumbnail_path IN
           \/ thumbnail_path = DEFAULT_THUMBNAIL_PATH
           \/ thumbnail_path \in thumbnail_files' \ thumbnail_files
        /\ videos'[response'.target].duration >= 0

(* C10: a create_video with a valid video stream and no thumbnail that
   succeeds yields a record with a thumbnail (derived or default) and
   duration >= 0; when the tool is absent or fails the upload still
   succeeds, with the default thumbnail and duration 0. *)
C10_UploadWithoutThumbnail ==
    [][\A tool \in Tools, db \in Sessions :
         create_video(response'.caller, UploadForm(GoodVideo, NoFile), tool, db)
            => UploadRecord /\ UploadFallsBack(tool, db)]_vars


-----------------------------------------------------------------------------
(* Uploads that fail *)

(* the file the thumbnail step hands to the record: the upload's, the frame
   derived from the stream, or the default one *)
ThumbnailOf(form, tool) ==
    LET n == save_video(form.video_file, video_files, uuids).uuids
        thumb == IF form.thumbnail_file # NoFile
                   THEN save_thumbnail(form.thumbnail_file, thumbnail_files, n)
                   ELSE generate_thumbnail_from_video(tool, thumbnail_files, n)
    IN  IF thumb.raised THEN DEFAULT_THUMBNAIL_PATH ELSE thumb.path

(* What an upload whose commit fails leaves behind *)
RolledBack(form, tool) ==
    /\ response'.status = 500
    /\ response'.detail = "Error uploading video: commit"
    /\ videos' = videos
    /\ video_files' = video_files
    /\ save_video(form.video_file, video_files, uuids).path \notin video_files'
    /\ ThumbnailOf(form, tool) # DEFAULT_THUMBNAIL_PATH =>
         /\ ThumbnailOf(form, tool) \notin thumbnail_files'
         /\ thumbnail_files' = thumbnail_files

(* C11: when the commit of create_video fails after the files were stored,
   the call answers 500 (UploadFailed), there is no new Video record, the
   stored video file is gone and so is the thumbnail file the request wrote
   (uploaded or derived), the default thumbnail never being the one removed. *)
C11_CommitFailureRollsBack ==
    [][/\ \A tool \in Tools :
            create_video(response'.caller, UploadForm(GoodVideo, NoFile), tool,
                         "commit_fails")
              => RolledBack(UploadForm(GoodVideo, NoFile), tool)
       /\ \A thumbnail_file \in Uploads("image", ImageTypes) :
            create_video(response'.caller,
                         UploadForm(GoodVideo, thumbnail_file), NoTool,
                         "commit_fails")
              => RolledBack(UploadForm(GoodVideo, thumbnail_file), NoTool)]_vars

(* A failed commit after a video file and a thumbnail were written: two
   names were drawn and neither file is left *)
C11_Witness ==
    /\ response.op = "create_video"
    /\ response.detail = "Error uploading video: commit"
    /\ uuids = 2
    /\ video_files = {}
    /\ thumbnail_files = {DEFAULT_THUMBNAIL_PATH}
    /\ videos = Empty

(* an upload whose declared content type is not video/... *)
NotVideo == [content_type |-> <<"image", "png">>, io |-> "ok"]

(* C12: create_video with a video_file whose content type does not start
   with video/ answers with the 400 "File is not a video" of save_video
   (InvalidMediaType), not with the 500 of a failed upload (UploadFailed). *)
C12_InvalidMediaType ==
    [][\A tool \in {NoTool, GoodTool}, db \in Sessions :
         create_video(response'.caller, UploadForm(NotVideo, NoFile), tool, db)
           => /\ response'.status = 400
              /\ response'.detail = "File is not a video"]_vars

(* the video uploads on which step 1 (save_video) fails *)
FailingVideos ==
    {video_file \in Uploads("video", VideoTypes) :
        save_video(video_file, video_files, uuids).raised}

(* C13: a failure of step 1 of create_video, a failure part-way through the
   write included, leaves no file in the video storage that was not there,
   writes no thumbnail and creates no Video record. *)
C13_FailedStoreLeavesNothing ==
    [][\A video_file \in FailingVideos, tool \in {NoTool, GoodTool},
          db \in Sessions :
         create_video(response'.caller, UploadForm(video_file, NoFile), tool, db)
           => /\ response'.status # 201
              /\ video_files' = video_files
              /\ thumbnail_files' = thumbnail_files
              /\ videos' = videos]_vars

(* the thumbnail uploads that save_thumbnail refuses or fails to store *)
FailingThumbnails ==
    {thumbnail_file \in Uploads("image", ImageTypes) :
        thumbnail_file.content_type[1] # "image" \/ thumbnail_file.io # "ok"}

(* the tool absent, and the tool installed with each failure of the frame
   extraction *)
FailingFrames ==
    {NoTool} \cup {[GoodTool EXCEPT !.frame = frame] :
                     frame \in {"empty", "missing", "CalledProcessError",
                                "Exception"}}

(* The upload went through and its record has the default thumbnail *)
DefaultThumbnailUsed ==
    /\ response'.status = 201
    /\ response'.target \in DOMAIN videos' \ DOMAIN videos
    /\ videos'[response'.target].thumbnail_path = DEFAULT_THUMBNAIL_PATH
    /\ videos'[response'.target].file_path \in video_files'

(* C14: an error in the thumbnail step of create_video (a supplied thumbnail
   that is not image/... or cannot be stored, a derivation that fails) never
   aborts the upload: the record is created and references the default
   thumbnail. *)
C14_ThumbnailErrorSwallowed ==
    [][/\ \A thumbnail_file \in FailingThumbnails :
            create_video(response'.caller,
                         UploadForm(GoodVideo, thumbnail_file), NoTool, "ok")
              => DefaultThumbnailUsed
       /\ \A tool \in FailingFrames :
            create_video(response'.caller, UploadForm(GoodVideo, NoFile), tool,
                         "ok")
              => DefaultThumbnailUsed]_vars

(* The first upload went through with the default thumbnail although its
   thumbnail step drew a name and left a file behind *)
C14_Witness ==
    /\ response.op = "create_video"
    /\ response.status = 201
    /\ videos[response.target].thumbnail_path = DEFAULT_THUMBNAIL_PATH
    /\ uuids = 2
    /\ video_files = {1}
    /\ thumbnail_files = {DEFAULT_THUMBNAIL_PATH, 2}

-----------------------------------------------------------------------------
(* The operations reserved to the uploader of a video *)

GoodImage == [content_type |-> <<"image", "png">>, io |-> "ok"]

NextOwner ==
    \/ \E u \in ActiveUsers, tool \in {NoTool, GoodTool} :
         /\ create_video(u, PlainForm(FALSE), tool, "ok")
         /\ VideosWithin(MaxVideos)
    \/ \E u \in ActiveUsers, v \in VideoIds :
         /\ create_comment(u, v, [content |-> "text", parent_id |-> None])
         /\ CommentsWithin(MaxLikedComments)
    \/ \E u \in ActiveUsers, v \in VideoIds : update_watch_history(u, v, 5)
    \/ \E u \in ActiveUsers, v \in VideoIds, p \in BOOLEAN :
         update_video(u, v, [is_private |-> p])
    \/ \E u \in ActiveUsers, v \in VideoIds : delete_video(u, v)
    \/ \E u \in ActiveUsers, v \in VideoIds :
         /\ update_thumbnail(u, v, GoodImage)
         /\ VideosWithin(MaxVideos)

SpecOwner == Init /\ [][NextOwner]_vars

OwnerOps == {"update_video", "delete_video", "update_thumbnail"}

(* C15: update_video, delete_video and update_thumbnail on an existing video
   succeed only for its uploader; to any other caller they answer 403 and
   leave the video's record, the stored files, the comments and the
   watch-history rows (and everything else) as they were. *)
C15_UploaderOnly ==
    [][(response'.op \in OwnerOps /\ response'.target \in DOMAIN videos) =>
         IF response'.caller = videos[response'.target].uploader_id
           THEN response'.status # 403
           ELSE /\ response'.status = 403
                /\ UNCHANGED <<tables, storage>>]_vars

(* Another user refused the removal of a video that has a derived
   thumbnail, a comment and a watch-history row *)
C15_Witness ==
    /\ response.op = "delete_video"
    /\ response.status = 403
    /\ response.target \in DOMAIN videos
    /\ videos[response.target].thumbnail_path \in
         thumbnail_files \ {DEFAULT_THUMBNAIL_PATH}
    /\ videos[response.target].file_path \in video_files
    /\ \E c \in DOMAIN comments : comments[c].video_id = response.target
    /\ \E h \in DOMAIN watch_history :
         watch_history[h].video_id = response.target

-----------------------------------------------------------------------------
(* Editing and removing comments *)

NextCommentRights ==
    \/ \E u \in ActiveUsers :
         /\ create_video(u, PlainForm(FALSE), NoTool, "ok")
         /\ VideosWithin(MaxVideos)
    \/ \E u \in ActiveUsers, v \in VideoIds :
         /\ create_comment(u, v, [content |-> "text", parent_id |-> None])
         /\ CommentsWithin(MaxComments)
    \/ \E u \in ActiveUsers, c \in CommentIds :
         update_comment(u, c, [content |-> "edit"])
    \/ \E u \in ActiveUsers, c \in CommentIds : delete_comment(u, c)

SpecCommentRights == Init /\ [][NextCommentRights]_vars

(* C16: update_comment on an existing comment succeeds for its author and
   for nobody else; delete_comment succeeds for its author and for the
   uploader of its video and for nobody else; every other caller gets 403
   and the comments are as they were, the comment still among them. *)
C16_CommentRights ==
    [][LET c == response'.target
           caller == response'.caller
       IN
       /\ (response'.op = "update_comment" /\ c \in DOMAIN comments) =>
            IF caller = comments[c].user_id
              THEN /\ response'.status = 200
                   /\ comments'[c].content = "edit"
              ELSE /\ response'.status = 403
                   /\ comments' = comments
       /\ (response'.op = "delete_comment" /\ c \in DOMAIN comments) =>
            IF \/ caller = comments[c].user_id
               \/ caller = videos[comments[c].video_id].uploader_id
              THEN /\ response'.status = 204
                   /\ c \notin DOMAIN comments'
              ELSE /\ response'.status = 403
                   /\ comments' = comments
                   /\ c \in DOMAIN comments']_vars

(* A caller who is neither the author of the comment nor the uploader of its
   video refused its removal, the comment having been edited by its author *)
C16_Witness ==
    /\ response.op = "delete_comment"
    /\ response.status = 403
    /\ response.target \in DOMAIN comments
    /\ comments[response.target].content = "edit"
    /\ comments[response.target].user_id # response.caller

-----------------------------------------------------------------------------
(* Comment threads over several videos *)

MaxThreads == 2
MaxReplies == 3

(* parent_id as a request may give it: absent, 0, or the id of a comment
   that exists or not *)
ParentIds == {None, 0} \cup (1..MaxReplies)

NextCommentTree ==
    \/ /\ create_video(1, PlainForm(FALSE), NoTool, "ok")
       /\ VideosWithin(MaxThreads)
    \/ \E v \in 1..MaxThreads, parent \in ParentIds :
         /\ create_comment(2, v, [content |-> "text", parent_id |-> parent])
         /\ CommentsWithin(MaxReplies)
    \/ \E u \in ActiveUsers, c \in 1..MaxReplies : delete_comment(u, c)
    \/ \E u \in ActiveUsers, v \in 1..MaxThreads : delete_video(u, v)

SpecCommentTree == Init /\ [][NextCommentTree]_vars

(* every comment that has a parent_id has a parent that exists and is a
   comment on the same video *)
ParentsOnSameVideo ==
    \A c \in DOMAIN comments :
        comments[c].parent_id # None =>
            /\ comments[c].parent_id \in DOMAIN comments
            /\ comments[comments[c].parent_id].video_id = comments[c].video_id

(* a reply to a comment on another video is refused and nothing is created *)
ForeignParentRefused ==
    \A v \in 1..MaxThreads, parent \in DOMAIN comments :
        (/\ create_comment(2, v, [content |-> "text", parent_id |-> parent])
         /\ v \in DOMAIN videos
         /\ comments[parent].video_id # v)
          => /\ response'.status = 400
             /\ comments' = comments

(* C17: create_comment with a parent_id naming a comment on a different
   video fails and creates nothing, and in every state reached by creating
   and deleting comments and deleting videos every comment with a parent_id
   has a parent that exists and belongs to the same video. *)
C17_CommentTree ==
    /\ []ParentsOnSameVideo
    /\ [][ForeignParentRefused]_vars

-----------------------------------------------------------------------------
(* Removing a video that has comments and watch-history rows *)

NextCascade ==
    \/ \E u \in ActiveUsers :
         /\ create_video(u, PlainForm(FALSE), NoTool, "ok")
         /\ VideosWithin(MaxThreads)
    \/ \E v \in 1..MaxThreads, parent \in {None, 1} :
         /\ create_comment(2, v, [content |-> "text", parent_id |-> parent])
         /\ CommentsWithin(MaxComments)
    \/ \E u \in ActiveUsers, v \in 1..MaxThreads : update_watch_history(u, v, 5)
    \/ \E u \in ActiveUsers, v \in 1..MaxThreads : delete_video(u, v)

SpecCascade == Init /\ [][NextCascade]_vars

(* the rows of a table that belong to video v *)
RowsOf(table, v) == {r \in DOMAIN table : table[r].video_id = v}

(* the rows of other videos are the same before and after *)
OthersKept(before, after, v) ==
    /\ DOMAIN after = DOMAIN before \ RowsOf(before, v)
    /\ \A r \in DOMAIN after : after[r] = before[r]

(* C18: after a successful delete_video(V) the Video row is gone, no Comment
   row and no WatchHistory row refers to V, and the comments and
   watch-history rows of the other videos are as they were. *)
C18_DeleteVideoCascades ==
    [][(response'.op = "delete_video" /\ response'.status = 204) =>
         LET V == response'.target IN
         /\ V \in DOMAIN videos
         /\ V \notin DOMAIN videos'
         /\ RowsOf(comments', V) = {}
         /\ RowsOf(watch_history', V) = {}
         /\ OthersKept(comments, comments', V)
         /\ OthersKept(watch_history, watch_history', V)
         /\ \A v \in DOMAIN videos' : videos'[v] = videos[v]]_vars

(* A video removed with its first comment and its first watch-history row,
   the rows of the other video staying *)
C18_Witness ==
    /\ response.op = "delete_video"
    /\ response.status = 204
    /\ DOMAIN videos # {}
    /\ DOMAIN comments = {2}
    /\ DOMAIN watch_history = {2}

-----------------------------------------------------------------------------
(* The thumbnail storage under uploads, removals and replacements *)

ThumbnailNames == {DEFAULT_THUMBNAIL_PATH} \cup (1..2 * MaxThreads)

NextThumbnails ==
    \/ \E u \in ActiveUsers, tool \in {NoTool, GoodTool},
          db \in {"ok", "commit_fails"} :
         /\ create_video(u, PlainForm(FALSE), tool, db)
         /\ VideosWithin(MaxThreads)
    \/ \E u \in ActiveUsers, v \in 1..MaxThreads : delete_video(u, v)
    \/ \E u \in ActiveUsers, v \in 1..MaxThreads :
         /\ update_thumbnail(u, v, GoodImage)
         /\ VideosWithin(MaxThreads)
    \/ \E filename \in ThumbnailNames : get_thumbnail_file(filename)

SpecThumbnails == Init /\ [][NextThumbnails]_vars

(* C19: the shared default thumbnail file is never removed, neither by
   delete_video nor by update_thumbnail nor by the rollback of create_video,
   so a video that references it finds it. *)
C19_DefaultThumbnailKept ==
    DEFAULT_THUMBNAIL_PATH \in thumbnail_files

-----------------------------------------------------------------------------
(* Registering users and renaming them *)

Registrations == NewUsers \cup {[username |-> "carol", email |-> "test@example.com"],
                                [username |-> "erin", email |-> "carol@example.com"]}

UserUpdates ==
    {[username |-> "carol"], [username |-> "admin"], [username |-> ""],
     [email |-> "carol@example.com"], [email |-> "admin@example.com"],
     [username |-> "erin", email |-> "test@example.com"]}

NextUsers ==
    \/ \E user \in Registrations : register_user(user) /\ UsersWithin(MaxUsers)
    \/ \E user \in Registrations :
         /\ register_user_lookup(user)
         /\ Cardinality(inflight') <= MaxInflight
    \/ \E user \in inflight :
         register_user_commit(user) /\ UsersWithin(MaxUsers)
    \/ \E u \in ActiveUsers, user_update \in UserUpdates :
         update_user(u, user_update)

SpecUsers == Init /\ [][NextUsers]_vars

(* no two users share a username and no two users share an email *)
UniqueUsers ==
    \A u1, u2 \in DOMAIN users :
        u1 # u2 => /\ users[u1].username # users[u2].username
                   /\ users[u1].email # users[u2].email

(* register_user refuses a username or an email that is present and creates
   nobody; it creates the user when both are new *)
RegisterChecksBoth ==
    \A user \in Registrations :
        register_user(user) =>
            IF \E u \in DOMAIN users : \/ users[u].username = user.username
                                       \/ users[u].email = user.email
              THEN /\ response'.status = 400
                   /\ response'.detail \in {"Username already registered",
                                            "Email already registered"}
                   /\ users' = users
              ELSE /\ response'.status = 201
                   /\ DOMAIN users' = DOMAIN users \cup {response'.target}
                   /\ response'.target \notin DOMAIN users
                   /\ users'[response'.target].username = user.username
                   /\ users'[response'.target].email = user.email
                   /\ \A u \in DOMAIN users : users'[u] = users[u]

(* C20: register_user fails (Conflict) and creates no user when the username
   or the email is already present and succeeds when both are new; in every
   state reached by register_user and update_user calls, interleaved as they
   may be, no two users share a username and no two share an email. *)
C20_UniqueUsers ==
    /\ []UniqueUsers
    /\ [][RegisterChecksBoth]_vars

(* A registration refused for its email alone, after a user took the email
   by an update *)
C20_Witness ==
    /\ response.op = "register_user"
    /\ response.status = 400
    /\ response.detail = "Email already registered"
    /\ \E u \in {1, 2} : users[u].email = "carol@example.com"

-----------------------------------------------------------------------------
(* Two pages of one search *)

MaxPaged == 4

SortKeys == {"created_at", "views", "duration"}

PageParams ==
    [sort_by : SortKeys, sort_order : {"asc", "desc"}, limit : {2},
     offset : {0, 2}]

NextPaging ==
    \/ \E clip \in Clips :
         /\ create_video(1, [PlainForm(FALSE) EXCEPT !.title = clip.title],
                         clip.tool, "ok")
         /\ VideosWithin(MaxPaged)
    \/ \E v \in {1, MaxPaged} : get_video(1, v) /\ ViewsWithin(MaxListedViews)
    \/ Tick /\ now' <= MaxTime
    \/ \E params \in PageParams : search_videos(params)

SpecPaging == Init /\ [][NextPaging]_vars

(* The pages a search with params may return in this state *)
PagesOf(params) ==
    {Page(rows, params.offset, params.limit) :
        rows \in Orderings(PublicVideos, params.sort_by,
                           params.sort_order # "asc")}

(* page followed by next_page is the whole of S, each video once, in the
   order of the column *)
Partition(S, page, next_page, column, descending) ==
    LET both == page \o next_page IN
    /\ Len(both) = Cardinality(S)
    /\ {both[i] : i \in DOMAIN both} = S
    /\ \A i, j \in DOMAIN both :
         i < j => IF descending
                    THEN videos[both[i]][column] >= videos[both[j]][column]
                    ELSE videos[both[i]][column] <= videos[both[j]][column]

(* C21: over an unchanged set of 4 matching videos, search_videos with
   (offset 0, limit 2) and then (offset 2, limit 2) under the same sort
   parameters returns two disjoint pairs that cover the 4 videos exactly
   once in the requested order, for each sort key and direction, ties on
   the key included. *)
C21_PagesPartition ==
    [][\A first \in {p \in PageParams : p.offset = 0} :
         LET second == [first EXCEPT !.offset = 2] IN
         /\ Cardinality(PublicVideos) = 4
         /\ response.op = "search_videos"
         /\ response.body \in PagesOf(first)
         /\ search_videos(second)
         => Partition(PublicVideos, response.body, response'.body,
                      first.sort_by, first.sort_order # "asc")]_vars

-----------------------------------------------------------------------------
(* The view counter, the requests running beside each other *)

MaxRequests == 3

NextViews ==
    \/ \E u \in ActiveUsers, p \in BOOLEAN :
         /\ create_video(u, PlainForm(p), NoTool, "ok")
         /\ VideosWithin(MaxVideos)
    \/ \E u \in ActiveUsers, v \in 1..(MaxVideos + 1) :
         /\ get_video_read(u, v)
         /\ Cardinality(inflight') <= MaxRequests
    \/ \E request \in inflight : get_video_commit(request)

SpecViews == Init /\ [][NextViews]_vars

(* C22: the view counter of a video never decreases, the get_video requests
   for one video running beside each other included. *)
C22_ViewsNeverDecrease ==
    [][\A v \in DOMAIN videos \cap DOMAIN videos' :
          videos'[v].views >= videos[v].views]_vars

(* The requests for video v that have been served *)
Served(v) == {r \in inflight : r.video_id = v /\ r.pc = "done"}

(* views has grown from 0 by at least 1 and at most k after k served calls *)
GrownWithin ==
    \A v \in DOMAIN videos :
        LET k == Cardinality(Served(v)) IN
        IF k = 0 THEN videos[v].views = 0
                 ELSE 1 <= videos[v].views /\ videos[v].views <= k

(* a call that no other call overlaps adds exactly one *)
AloneAddsOne ==
    \A request \in inflight :
        /\ get_video_commit(request)
        /\ request.views = videos[request.video_id].views
        => /\ response'.status = 200
           /\ videos'[request.video_id].views =
                videos[request.video_id].views + 1

(* a call that fails leaves the counter *)
RefusedLeavesViews ==
    \A u \in ActiveUsers, v \in 1..(MaxVideos + 1) :
        get_video_read(u, v) /\ inflight' = inflight
        => /\ response'.status \in {403, 404}
           /\ response'.target = v
           /\ videos' = videos

(* C24: get_video adds exactly one to the view counter on each successful
   call and leaves it on a failed one; k successful calls that do not
   overlap add exactly k, k overlapping calls add at least 1 and at most
   k. *)
C24_ViewsCounted ==
    /\ []GrownWithin
    /\ [][AloneAddsOne]_vars
    /\ [][RefusedLeavesViews]_vars

(* Three calls served of which two overlapped: one increment is lost *)
C24_Witness ==
    /\ 1 \in DOMAIN videos
    /\ Cardinality(Served(1)) = 3
    /\ videos[1].views = 2
    /\ response.status = 200

-----------------------------------------------------------------------------
(* Likes and subscriptions, the requests running beside each other *)

NextConcurrentLikes ==
    \/ \E u \in ActiveUsers, p \in BOOLEAN :
         /\ create_video(u, PlainForm(p), NoTool, "ok")
         /\ VideosWithin(MaxVideos)
    \/ \E u \in ActiveUsers, v \in 1..(MaxVideos + 1), n \in 1..MaxInflight :
         like_video_check(u, v, n)
    \/ \E request \in inflight :
         /\ like_video_commit(request)
         /\ BagCardinality(video_likes') <= MaxRows
    \/ \E u \in ActiveUsers, v \in VideoIds : unlike_video(u, v)
    \/ \E u \in ActiveUsers, username \in Usernames, n \in 1..MaxInflight :
         subscribe_to_user_check(u, username, n)
    \/ \E request \in inflight :
         /\ subscribe_to_user_commit(request)
         /\ BagCardinality(subscription') <= MaxRows

SpecConcurrentLikes == Init /\ [][NextConcurrentLikes]_vars

(* no edge occurs more than once in the join table *)
IsSet(bag) == \A edge \in BagToSet(bag) : CopiesIn(edge, bag) = 1

(* C23: in every state each join relation (subscription, video-like,
   comment-like) holds no (user, target) edge more than once, also when two
   like or subscribe requests for one edge run beside each other. *)
C23_JoinTablesAreSets ==
    IsSet(subscription) /\ IsSet(video_likes) /\ IsSet(comment_likes)

-----------------------------------------------------------------------------
(* Tokens that outlive the username they were issued for *)

MaxTokens == 2

NextTokens ==
    \/ \E username \in Channels :
         /\ login_for_access_token(username)
         /\ Cardinality(inflight') <= MaxTokens
    \/ \E token \in inflight : read_users_me(token)
    \/ \E token \in inflight, user_update \in UserUpdates :
         /\ get_current_active_user(token) # None
         /\ update_user(get_current_active_user(token), user_update)
    \/ \E user \in Registrations : register_user(user) /\ UsersWithin(MaxUsers)

SpecTokens == Init /\ [][NextTokens]_vars

(* C25: a token issued at login to user U never authenticates another
   user: whatever update_user and register_user calls came after, resolving
   it yields U or fails Unauthorized. *)
C25_TokenKeepsItsUser ==
    [][\A token \in inflight :
          read_users_me(token) =>
              \/ response'.status = 401
              \/ response'.caller = token.user]_vars

-----------------------------------------------------------------------------
(* Records and the files they name, with sessions that fail *)

NextCommitted ==
    \/ \E u \in ActiveUsers, db \in Sessions :
         /\ create_video(u, PlainForm(FALSE), NoTool, db)
         /\ VideosWithin(MaxThreads)
    \/ \E u \in ActiveUsers, v \in 1..MaxThreads,
          db \in {"ok", "commit_fails"} :
         delete_video_db(u, v, db)
    \/ \E filename \in 1..(2 * MaxThreads) : get_video_file(filename)
    \/ \E u \in ActiveUsers, v \in 1..MaxThreads, p \in BOOLEAN :
         update_video(u, v, [is_private |-> p])

SpecCommitted == Init /\ [][NextCommitted]_vars

(* C26: in every state each committed Video record names a video file that
   is in the storage, also after a create_video whose commit went through
   and whose refresh failed, and after a delete_video whose commit failed
   when the files were removed already. *)
C26_RecordsHaveFiles ==
    \A v \in DOMAIN videos : videos[v].file_path \in video_files

-----------------------------------------------------------------------------
(* Replacing a thumbnail with files that are refused or fail to be stored *)

NewThumbnails == {GoodImage} \cup FailingThumbnails

NextReplace ==
    \/ \E u \in ActiveUsers, tool \in {NoTool, GoodTool} :
         /\ create_video(u, PlainForm(FALSE), tool, "ok")
         /\ VideosWithin(MaxVideos)
    \/ \E u \in ActiveUsers, v \in 1..(MaxVideos + 1),
          thumbnail_file \in NewThumbnails :
         /\ update_thumbnail(u, v, thumbnail_file)
         /\ uuids' <= 2 * MaxThreads
    \/ \E filename \in ThumbnailNames : get_thumbnail_file(filename)

SpecReplace == Init /\ [][NextReplace]_vars

(* C27: an update_thumbnail that fails (a new file that is not an image,
   for one) leaves the video as it was: the record names the old thumbnail
   and the file of that thumbnail is still in the storage. *)
C27_FailedReplaceKeepsThumbnail ==
    [][\A u \in ActiveUsers, v \in DOMAIN videos,
          thumbnail_file \in NewThumbnails :
          update_thumbnail(u, v, thumbnail_file) /\ response'.status # 200
          => /\ videos' = videos
             /\ videos[v].thumbnail_path \in thumbnail_files
                  => videos[v].thumbnail_path \in thumbnail_files']_vars

-----------------------------------------------------------------------------
(* Threads of comments that are edited and removed *)

(* bodies of PUT /videos/comments/{comment_id}; a parent_id in the body is
   no field of CommentUpdate *)
CommentUpdates ==
    {[content |-> "edit"]}
    \cup [content : {"text"}, parent_id : 1..MaxReplies]

NextThread ==
    \/ /\ create_video(1, PlainForm(FALSE), NoTool, "ok")
       /\ VideosWithin(MaxThreads)
    \/ \E v \in 1..MaxThreads, parent \in ParentIds :
         /\ create_comment(2, v, [content |-> "text", parent_id |-> parent])
         /\ CommentsWithin(MaxReplies)
    \/ \E c \in 1..MaxReplies, comment_update \in CommentUpdates :
         update_comment(2, c, comment_update)
    \/ \E u \in ActiveUsers, c \in 1..MaxReplies : delete_comment(u, c)
    \/ \E v \in 1..MaxThreads : delete_video(1, v)

SpecThread == Init /\ [][NextThread]_vars

(* The comments reached from c by following parent_id at most n times *)
RECURSIVE Ancestors(_, _)
Ancestors(c, n) ==
    IF n = 0 \/ c \notin DOMAIN comments
             \/ comments[c].parent_id \notin DOMAIN comments
      THEN {}
      ELSE {comments[c].parent_id} \cup Ancestors(comments[c].parent_id, n - 1)

(* C28: the parent relation of the comments is acyclic in every state
   reached by create_comment, update_comment, delete_comment and
   delete_video: no comment is its own ancestor. *)
C28_NoCommentIsItsAncestor ==
    \A c \in DOMAIN comments :
        c \notin Ancestors(c, Cardinality(DOMAIN comments))

(* An edit of a comment that has a parent and a reply *)
C28_Witness ==
    /\ response.op = "update_comment"
    /\ response.status = 200
    /\ \E c \in DOMAIN comments :
         /\ response.target \in Ancestors(c, 2)
         /\ comments[response.target].parent_id \in DOMAIN comments
         /\ comments[response.target].content = "text"

-----------------------------------------------------------------------------
(* Profiles edited with names and addresses that are taken *)

(* every body with an email has a username that is new to the two first
   users *)
ProfileUpdates ==
    [username : {"erin"},
     email : {"test@example.com", "admin@example.com", "erin@example.com"},
     full_name : {"Ann"}]
    \cup {[username |-> "admin"], [username |-> "test", bio |-> "hello"],
          [full_name |-> "Bob", bio |-> "", password |-> "secret"]}

NextProfile ==
    \/ \E user \in NewUsers : register_user(user) /\ UsersWithin(MaxUsers)
    \/ \E u \in ActiveUsers, user_update \in ProfileUpdates :
         update_user(u, user_update)

SpecProfile == Init /\ [][NextProfile]_vars

(* the username or the email asked for is that of another user *)
Taken(current_user, user_update) ==
    \E u \in DOMAIN users \ {current_user} :
        \/ Has(user_update, "username") /\ users[u].username = user_update.username
        \/ Has(user_update, "email") /\ users[u].email = user_update.email

(* C29: update_user is all-or-nothing: when it fails because the username
   or the email asked for is taken, no persisted field of the caller
   changes; a username accepted earlier in the request is not persisted
   when the email check fails. *)
C29_UpdateUserAllOrNothing ==
    [][\A u \in ActiveUsers, user_update \in ProfileUpdates :
          update_user(u, user_update) =>
              /\ Taken(u, user_update) => response'.status = 400
              /\ response'.status # 200 => users' = users]_vars

(* A request refused for its email, by a caller for whom the username of
   every such request is new and free *)
C29_Witness ==
    /\ response.op = "update_user"
    /\ response.status = 400
    /\ response.detail = "Email already registered"
    /\ users[response.caller].username \in {"admin", "test"}
    /\ \A u \in DOMAIN users : users[u].username # "erin"
    /\ \E u \in DOMAIN users : Has(users[u], "full_name")

-----------------------------------------------------------------------------
(* Watch history over time: reports repeated after other videos were
   watched *)

NextRepeat ==
    \/ /\ create_video(1, PlainForm(FALSE), NoTool, "ok")
       /\ VideosWithin(MaxWatched)
    \/ Tick /\ now' <= MaxTime
    \/ \E u \in ActiveUsers, v \in 1..MaxWatched, t \in Positions :
         update_watch_history(u, v, t)
    \/ \E u \in ActiveUsers : get_watch_history(u, 0, 10)

SpecRepeat == Init /\ [][NextRepeat]_vars

(* The lists get_watch_history may return to user_id *)
HistoryOf(user_id) ==
    ByWatchedAtDesc({h \in DOMAIN watch_history :
                       watch_history[h].user_id = user_id})

(* C30: a repeat update_watch_history report for a (user, video) pair that
   has a row changes only the timestamp of that row; watched_at keeps the
   value of the row's creation, so the order of get_watch_history (by
   watched_at descending) is not changed by repeat views. *)
C30_RepeatKeepsWatchedAt ==
    [][\A u \in DOMAIN users, v \in 1..MaxWatched, t \in Positions :
         (/\ update_watch_history(u, v, t)
          /\ response'.status = 200
          /\ HistoryRows(watch_history, u, v) # {})
         => /\ DOMAIN watch_history' = DOMAIN watch_history
            /\ \A h \in DOMAIN watch_history :
                 watch_history'[h] =
                   IF h \in HistoryRows(watch_history, u, v)
                     THEN [watch_history[h] EXCEPT !.timestamp = t]
                     ELSE watch_history[h]
            /\ \A user_id \in DOMAIN users :
                 HistoryOf(user_id)' = HistoryOf(user_id)]_vars

(* A repeat report answered at a later time than the row was made, for a
   row that is older than another row of the same user *)
C30_Witness ==
    /\ response.op = "update_watch_history"
    /\ response.status = 200
    /\ \E h \in DOMAIN watch_history :
         /\ response.body = <<h>>
         /\ watch_history[h].timestamp = 9
         /\ watch_history[h].watched_at < now
         /\ \E later \in DOMAIN watch_history :
              /\ later > h
              /\ watch_history[later].user_id = watch_history[h].user_id
              /\ watch_history[later].watched_at > watch_history[h].watched_at


====
